---------------------------- MODULE Spec2Model ----------------------------
(***************************************************************************)
(* Model of the document editing backend (src/backend/main.py, the        *)
(* DocumentState class of the real mode and the HTTP handlers that wrap   *)
(* it): stable run addresses (bookmarks), the split/merge span editor,    *)
(* the optimistic-concurrency and idempotent-replay protocol, and the     *)
(* bounded undo/redo history with insert coalescing.                      *)
(*                                                                         *)
(* Representation.  A document is the sequence of the body's paragraphs;  *)
(* a paragraph is the sequence of its child nodes, which are runs,        *)
(* BookmarkStart nodes and BookmarkEnd nodes, plus alignment and          *)
(* first-line indent.  The nodes are held by run: a run is its text (a    *)
(* sequence of characters), its font, the name of the bookmark whose two  *)
(* nodes are its immediate neighbours (its id, "" if there is none) and   *)
(* the bookmark nodes that precede that BookmarkStart (before); the       *)
(* bookmark nodes after the last run of a paragraph are the paragraph's   *)
(* tail.  A name resolves as the code resolves it, by walking the nodes   *)
(* from the BookmarkStart, so a run can lie in several bookmarks (those   *)
(* an uploaded file brings along, those a split leaves around a segment)  *)
(* and a bookmark whose run was removed stays in the document and         *)
(* resolves to no run.  A character is a string: an ASCII character is    *)
(* itself, any other is named by its code point.                          *)
(* Names, document ids, client operation ids and cache                    *)
(* keys are strings, built as the code builds them; uuid4().hex is the    *)
(* numeral of a counter, padded to 32 digits: the only property of it the *)
(* code relies on is that a value never repeats.                          *)
(* The document engine's DOCX round trip (_serialize_doc, _restore_doc)   *)
(* and its HTML export are the engine's: a snapshot is the document value *)
(* and a rendering is the page number with the document value.  Whether   *)
(* the export works is the engine's too: when the export of a page fails  *)
(* (renders), get_html raises and the handler that called it answers 500  *)
(* after whatever it did before the call; when the export of a paragraph  *)
(* fails (exports_paragraph), there is no patch and the handler answers   *)
(* with the page.  The engine fails and recovers in SpecRender; the other *)
(* specifications keep it working.                                        *)
(* An optional value (Python's None or a value) is <<>> or <<v>>.          *)
(***************************************************************************)
EXTENDS Integers, Sequences, FiniteSets, TLC

\* ------------------------------------------------------------------ bounds
\* Paragraphs of text the layout engine puts on one page (the engine's).
ParasPerPage == 4
\* Requests a behaviour of Spec handles before the environment stops sending.
MaxRequests == 2
\* upload_document calls suspended at once.
MaxUploads == 1
\* Time the clock advances in a behaviour, in tenths of a time unit.
MaxElapsed == 30

\* --------------------------------------------------------------- constants
max_history == 50
max_applied_ops == 5000
\* The coalescing window, 2.5 time units, in tenths of a unit.
CoalesceWindow == 25
\* time.monotonic() when the process starts, in tenths of a time unit.
StartTime == 100

\* ----------------------------------------------------------------- options
None == <<>>
Some(v) == <<v>>
IsSome(o) == Len(o) = 1
Val(o) == o[1]

Max2(a, b) == IF a >= b THEN a ELSE b
Min2(a, b) == IF a <= b THEN a ELSE b
\* max(lo, min(x, hi))
Clamp(lo, x, hi) == Max2(lo, Min2(x, hi))

Take(s, k) == SubSeq(s, 1, k)
Drop(s, k) == SubSeq(s, k + 1, Len(s))

\* ------------------------------------------------------------------ styles
\* StyleUpdate: every field optional.
NoStyle ==
  [font_name |-> None, font_size |-> None, color |-> None, alignment |-> None,
   first_line_indent |-> None, bold |-> None, italic |-> None]

DefaultFont ==
  [name |-> "Times New Roman", size |-> 12, bold |-> FALSE, italic |-> FALSE,
   color |-> <<0, 0, 0>>]

\* A character that is not printable ASCII is named by its code point:
\* "U+" and the code point in hexadecimal capitals, four digits or more.
RECURSIVE HexNumeral(_)
HexNumeral(n) ==
  IF n < 16 THEN SubSeq("0123456789ABCDEF", n + 1, n + 1)
  ELSE HexNumeral(n \div 16) \o SubSeq("0123456789ABCDEF", (n % 16) + 1, (n % 16) + 1)
CharName(n) == "U+" \o SubSeq("000", 1, 4 - Len(HexNumeral(n))) \o HexNumeral(n)

\* The code points of the digit zero of every script with decimal digits
\* (general category Nd, Unicode 14.0.0) outside ASCII; the digits one to nine
\* of the script follow it.
DecimalZeros ==
  {1632, 1776, 1984, 2406, 2534, 2662, 2790, 2918, 3046, 3174, 3302, 3430, 3558,
   3664, 3792, 3872, 4160, 4240, 6112, 6160, 6470, 6608, 6784, 6800, 6992, 7088,
   7232, 7248, 42528, 43216, 43264, 43472, 43504, 43600, 44016, 65296, 66720,
   68912, 69734, 69872, 69942, 70096, 70384, 70736, 70864, 71248, 71360, 71472,
   71904, 72016, 72784, 73040, 73120, 92768, 92864, 93008, 120782, 120792,
   120802, 120812, 120822, 123200, 123632, 125264, 130032}

\* The value of a hexadecimal digit of ASCII, in either case.
AsciiHexDigits ==
  [c \in {"0", "1", "2", "3", "4", "5", "6", "7", "8", "9",
          "a", "b", "c", "d", "e", "f", "A", "B", "C", "D", "E", "F"} |->
     CASE c = "0" -> 0 [] c = "1" -> 1 [] c = "2" -> 2 [] c = "3" -> 3
       [] c = "4" -> 4 [] c = "5" -> 5 [] c = "6" -> 6 [] c = "7" -> 7
       [] c = "8" -> 8 [] c = "9" -> 9 [] c \in {"a", "A"} -> 10
       [] c \in {"b", "B"} -> 11 [] c \in {"c", "C"} -> 12 [] c \in {"d", "D"} -> 13
       [] c \in {"e", "E"} -> 14 [] c \in {"f", "F"} -> 15]

\* The code point a name "U+..." stands for.
RECURSIVE NumeralValue(_, _)
NumeralValue(h, acc) ==
  IF Len(h) = 0 THEN acc
  ELSE NumeralValue(SubSeq(h, 2, Len(h)), 16 * acc + AsciiHexDigits[SubSeq(h, 1, 1)])
CodePoint(c) == NumeralValue(SubSeq(c, 3, Len(c)), 0)

\* The value of a digit int(, 16) accepts: the hexadecimal digits of ASCII, in
\* either case, and the decimal digits of every other script, which int()
\* turns into ASCII digits before it parses.
HexDigits ==
  [c \in DOMAIN AsciiHexDigits \cup {CharName(z + k) : z \in DecimalZeros, k \in 0..9} |->
     IF c \in DOMAIN AsciiHexDigits THEN AsciiHexDigits[c]
     ELSE CHOOSE k \in 0..9 : (CodePoint(c) - k) \in DecimalZeros]

\* The characters int() takes for whitespace around a literal: those of ASCII
\* (tab, line feed, vertical tab, form feed, carriage return, space; not the
\* separators U+001C to U+001F) and every space character outside ASCII,
\* which int() turns into a space before it parses.
Whitespace ==
  {" ", "\t", "\n", "\r", "\f", "U+000B"}
    \cup {"U+0085", "U+00A0", "U+1680", "U+2000", "U+2001", "U+2002", "U+2003",
          "U+2004", "U+2005", "U+2006", "U+2007", "U+2008", "U+2009", "U+200A",
          "U+2028", "U+2029", "U+202F", "U+205F", "U+3000"}

\* The whitespace int() skips at both ends of a literal.
RECURSIVE Strip(_)
Strip(s) ==
  IF Len(s) > 0 /\ s[1] \in Whitespace THEN Strip(Tail(s))
  ELSE IF Len(s) > 0 /\ s[Len(s)] \in Whitespace THEN Strip(SubSeq(s, 1, Len(s) - 1))
  ELSE s

\* The number the hexadecimal digits of s write, its underscores skipped.
RECURSIVE HexValue(_, _)
HexValue(s, acc) ==
  IF Len(s) = 0 THEN acc
  ELSE IF s[1] = "_" THEN HexValue(Tail(s), acc)
  ELSE HexValue(Tail(s), 16 * acc + HexDigits[s[1]])

\* int(s, 16): whitespace around the literal is dropped, then come an
\* optional sign, an optional prefix 0x or 0X (its zero of any script) and the
\* digits, with single underscores between them (and after the prefix); the
\* sign, the x and the underscore are ASCII; <<>> when int() raises
\* ValueError.
HexInt(s) ==
  LET digits(w, negative, digit) ==
        IF /\ Len(w) > 0
           /\ \A k \in 1..Len(w) : w[k] = "_" \/ w[k] \in DOMAIN digit
           /\ w[1] # "_" /\ w[Len(w)] # "_"
           /\ \A k \in 1..(Len(w) - 1) : ~(w[k] = "_" /\ w[k + 1] = "_")
        THEN Some((IF negative THEN 0 - 1 ELSE 1) * HexValue(w, 0))
        ELSE None
      after_prefix(v) == IF Len(v) > 0 /\ v[1] = "_" THEN Tail(v) ELSE v
      is_zero(c, digit) == c \in DOMAIN digit /\ digit[c] = 0
      unsigned(u, negative, digit) ==
        digits(IF Len(u) >= 2 /\ is_zero(u[1], digit) /\ u[2] \in {"x", "X"}
               THEN after_prefix(Drop(u, 2)) ELSE u,
               negative, digit)
      stripped(t, digit) ==
        unsigned(IF Len(t) > 0 /\ t[1] \in {"+", "-"} THEN Tail(t) ELSE t,
                 Len(t) > 0 /\ t[1] = "-", digit)
  IN stripped(Strip(s), HexDigits)

\* str.lstrip('#')
RECURSIVE LStripHash(_)
LStripHash(s) ==
  IF Len(s) > 0 /\ s[1] = "#" THEN LStripHash(Tail(s)) ELSE s

\* The color a color string sets: <<>> when the string is not applied (it does
\* not start with "#", a component does not parse, or Color.from_argb refuses
\* a component outside 0..255).
ParseColor(s) ==
  LET from_argb(c) ==
        IF \A i \in 1..3 : IsSome(c[i]) /\ Val(c[i]) \in 0..255
        THEN Some(<<Val(c[1]), Val(c[2]), Val(c[3])>>) ELSE None
      components(h) ==
        from_argb([i \in 1..3 |-> HexInt(SubSeq(h, 2 * i - 1, Min2(2 * i, Len(h))))])
  IN IF Len(s) = 0 \/ s[1] # "#" THEN None ELSE components(LStripHash(s))

\* A variant that tests bold and italic for truth as it tests the name.
apply_style_to_font_if_true(font, style) ==
  LET f1 == IF IsSome(style.font_name) /\ Val(style.font_name) # ""
            THEN [font EXCEPT !.name = Val(style.font_name)] ELSE font
      f2 == IF IsSome(style.font_size) /\ Val(style.font_size) # 0
            THEN [f1 EXCEPT !.size = Val(style.font_size)] ELSE f1
      f3 == IF IsSome(style.bold) /\ Val(style.bold) THEN [f2 EXCEPT !.bold = TRUE] ELSE f2
      f4 == IF IsSome(style.italic) /\ Val(style.italic) THEN [f3 EXCEPT !.italic = TRUE] ELSE f3
  IN f4

apply_style_to_font(font, style) ==
  LET f1 == IF IsSome(style.font_name) /\ Val(style.font_name) # ""
            THEN [font EXCEPT !.name = Val(style.font_name)] ELSE font
      f2 == IF IsSome(style.font_size) /\ Val(style.font_size) # 0
            THEN [f1 EXCEPT !.size = Val(style.font_size)] ELSE f1
      f3 == IF IsSome(style.bold) THEN [f2 EXCEPT !.bold = Val(style.bold)] ELSE f2
      f4 == IF IsSome(style.italic) THEN [f3 EXCEPT !.italic = Val(style.italic)] ELSE f3
      colored(f, c) == IF IsSome(c) THEN [f EXCEPT !.color = Val(c)] ELSE f
  IN colored(f4, IF IsSome(style.color) THEN ParseColor(Val(style.color)) ELSE None)

\* str.lower() of one character (of the ASCII letters; the alignment names
\* have no others).
LowerChar(c) ==
  CASE c = "A" -> "a" [] c = "B" -> "b" [] c = "C" -> "c" [] c = "D" -> "d"
    [] c = "E" -> "e" [] c = "F" -> "f" [] c = "G" -> "g" [] c = "H" -> "h"
    [] c = "I" -> "i" [] c = "J" -> "j" [] c = "K" -> "k" [] c = "L" -> "l"
    [] c = "M" -> "m" [] c = "N" -> "n" [] c = "O" -> "o" [] c = "P" -> "p"
    [] c = "Q" -> "q" [] c = "R" -> "r" [] c = "S" -> "s" [] c = "T" -> "t"
    [] c = "U" -> "u" [] c = "V" -> "v" [] c = "W" -> "w" [] c = "X" -> "x"
    [] c = "Y" -> "y" [] c = "Z" -> "z" [] OTHER -> c

\* str.lower()
RECURSIVE Lower(_)
Lower(s) == IF Len(s) = 0 THEN "" ELSE LowerChar(Head(s)) \o Lower(Tail(s))

apply_style_to_paragraph(para, style) ==
  LET v  == IF IsSome(style.alignment) THEN Lower(Val(style.alignment)) ELSE ""
      p1 == IF v \in {"left", "center", "right", "justify"}
            THEN [para EXCEPT !.align = v] ELSE para
  IN IF IsSome(style.first_line_indent)
     THEN [p1 EXCEPT !.indent = Val(style.first_line_indent)] ELSE p1

\* --------------------------------------------------------------- documents
\* uuid.uuid4().hex: the n-th value the process draws, 32 hexadecimal digits.
\* The values are random in the code; what it relies on is that none repeats.
uuid4_hex(n) ==
  SubSeq("00000000000000000000000000000000", 1, 32 - Len(ToString(n))) \o ToString(n)
\* f"Run_{uuid.uuid4().hex}", f"{name}_pre_{uuid.uuid4().hex}" and
\* f"{name}_post_{uuid.uuid4().hex}": the names of the bookmarks the code mints.
RunName(n) == "Run_" \o uuid4_hex(n)
PreName(name, n) == name \o "_pre_" \o uuid4_hex(n)
PostName(name, n) == name \o "_post_" \o uuid4_hex(n)

\* A bookmark is two nodes among the children of a paragraph, BookmarkStart
\* and BookmarkEnd, of one name.
BookmarkStart(name) == [start |-> TRUE, name |-> name]
BookmarkEnd(name) == [start |-> FALSE, name |-> name]

\* aw.Run and _wrap_run_with_bookmark: a run with the two nodes of the
\* bookmark `id` next to it on either side ("": the run is not wrapped) and no
\* other bookmark node before it.
NewRun(id, text, font) == [before |-> <<>>, id |-> id, text |-> text, font |-> font]
\* aw.Paragraph(doc): no children, default formatting.
NewParagraph == [runs |-> <<>>, tail |-> <<>>, align |-> "left", indent |-> 0]

\* The positions <<paragraph, run>> of the runs, in document (pre-order) order.
RECURSIVE RunsFrom(_, _)
RunsFrom(d, p) ==
  IF p > Len(d) THEN <<>>
  ELSE [i \in 1..Len(d[p].runs) |-> <<p, i>>] \o RunsFrom(d, p + 1)
RunList(d) == RunsFrom(d, 1)

RunAt(d, pos) == d[pos[1]].runs[pos[2]]
IndexOf(seq, x) == CHOOSE k \in 1..Len(seq) : seq[k] = x /\ \A j \in 1..(k - 1) : seq[j] # x

\* All run texts in document order, concatenated.
RECURSIVE ConcatTexts(_, _, _)
ConcatTexts(d, rl, k) ==
  IF k > Len(rl) THEN <<>> ELSE RunAt(d, rl[k]).text \o ConcatTexts(d, rl, k + 1)
DocText(d) == ConcatTexts(d, RunList(d), 1)

\* One sequence from the sequences f[i], ..., f[n].
RECURSIVE ConcatSeqs(_, _, _)
ConcatSeqs(f, i, n) == IF i > n THEN <<>> ELSE f[i] \o ConcatSeqs(f, i + 1, n)

\* The children of the paragraphs of d, in document order: the bookmark nodes
\* ("start", "end", with the name), the runs ("run", with the position) and,
\* after the children of each paragraph, a mark for the paragraph's end.
Nodes(d) ==
  LET node(kind, name, pos) == [kind |-> kind, name |-> name, pos |-> pos]
      markers(ms) ==
        [k \in 1..Len(ms) |-> node(IF ms[k].start THEN "start" ELSE "end", ms[k].name, <<>>)]
      wrapped(run, pos) ==
        markers(run.before)
          \o (IF run.id = "" THEN <<node("run", "", pos)>>
              ELSE <<node("start", run.id, <<>>), node("run", "", pos),
                     node("end", run.id, <<>>)>>)
      children(para, p) ==
        ConcatSeqs([i \in 1..Len(para.runs) |-> wrapped(para.runs[i], <<p, i>>)],
                   1, Len(para.runs))
          \o markers(para.tail) \o <<node("paragraph", "", <<>>)>>
  IN ConcatSeqs([p \in 1..Len(d) |-> children(d[p], p)], 1, Len(d))

\* _find_bookmark: where among the nodes the bookmark named `name` starts (the
\* first of that name), 0 when there is none.
find_bookmark(nodes, name) ==
  LET starts == {k \in 1..Len(nodes) : nodes[k].kind = "start" /\ nodes[k].name = name}
  IN IF starts = {} THEN 0 ELSE CHOOSE k \in starts : \A j \in starts : k <= j

\* _run_in_bookmark: the position of the first run among the siblings after
\* the bookmark's start node and before its end node, <<>> when there is none.
run_after(nodes, k, name) ==
  LET stops == {j \in (k + 1)..Len(nodes) :
                  \/ nodes[j].kind \in {"run", "paragraph"}
                  \/ nodes[j].kind = "end" /\ nodes[j].name = name}
  IN nodes[CHOOSE j \in stops : \A i \in stops : j <= i].pos

\* _find_bookmark then _run_in_bookmark: the position of the run the bookmark
\* named `name` resolves to, <<>> (None) when there is no such bookmark or no
\* run in it.
run_in_bookmark(d, name) ==
  LET found(nodes, k) == IF k = 0 THEN None ELSE run_after(nodes, k, name)
      resolved(nodes) == found(nodes, find_bookmark(nodes, name))
  IN resolved(Nodes(d))

\* The addresses bound in a document: the names of the bookmarks that resolve
\* to a run.
Addresses(d) ==
  LET bound(nodes) ==
        {nodes[k].name :
           k \in {j \in 1..Len(nodes) :
                    /\ nodes[j].kind = "start"
                    /\ find_bookmark(nodes, nodes[j].name) = j
                    /\ run_after(nodes, j, nodes[j].name) # None}}
  IN bound(Nodes(d))

\* str.startswith
StartsWith(s, prefix) == Len(s) >= Len(prefix) /\ SubSeq(s, 1, Len(prefix)) = prefix

\* _bookmark_name_for_run: the name of the first bookmark, among those whose
\* name starts with "Run_", that resolves to the run at pos.
bookmark_name_for_run(d, pos) ==
  LET first(found) == IF found = <<>> THEN None ELSE Some(found[1].name)
      named(nodes) ==
        first(SelectSeq([k \in 1..Len(nodes) |-> [name |-> nodes[k].name, at |-> k,
                                                    kind |-> nodes[k].kind]],
                        LAMBDA n : /\ n.kind = "start"
                                   /\ StartsWith(n.name, "Run_")
                                   /\ run_after(nodes, n.at, n.name) = pos))
  IN named(Nodes(d))

\* The document with the run at pos replaced by the runs `segs`.
ReplaceRun(d, pos, segs) ==
  [d EXCEPT ![pos[1]].runs =
     SubSeq(@, 1, pos[2] - 1) \o segs \o SubSeq(@, pos[2] + 1, Len(@))]

\* Bookmark.remove() of a bookmark whose nodes are not next to a run: its two
\* nodes leave the document.
remove_bookmark(d, name) ==
  LET others(ms) == SelectSeq(ms, LAMBDA m : m.name # name)
  IN [p \in 1..Len(d) |->
        [d[p] EXCEPT !.runs = [i \in 1..Len(d[p].runs) |->
                                 [d[p].runs[i] EXCEPT !.before = others(@)]],
                     !.tail = others(@)]]

\* What the splitting methods and Node.remove() do to the children of the
\* paragraph of the run at pos: the bookmarks named in `removed` are removed
\* (Bookmark.remove()), the runs `segs` are inserted just before the run, each
\* wrapped in its bookmark, and the run is removed (Node.remove()); the bookmark
\* nodes around the run stay where they are.
SpliceRun(d, pos, segs, removed) ==
  LET others(ms) == SelectSeq(ms, LAMBDA m : m.name \notin removed)
      run == RunAt(d, pos)
      own(start) == IF run.id = "" \/ run.id \in removed THEN <<>>
                    ELSE <<[start |-> start, name |-> run.id]>>
      opening == others(run.before) \o own(TRUE)
      carried == IF segs = <<>> THEN opening \o own(FALSE) ELSE own(FALSE)
      placed == IF segs = <<>> THEN <<>>
                ELSE <<[segs[1] EXCEPT !.before = opening \o @]>> \o Tail(segs)
      after(runs) == SubSeq(runs, pos[2] + 1, Len(runs))
      following(runs) ==
        IF runs = <<>> THEN <<>>
        ELSE <<[runs[1] EXCEPT !.before = carried \o others(@)]>>
               \o [i \in 1..(Len(runs) - 1) |-> [runs[i + 1] EXCEPT !.before = others(@)]]
      before(runs) == [i \in 1..(pos[2] - 1) |-> [runs[i] EXCEPT !.before = others(@)]]
  IN [p \in 1..Len(d) |->
        IF p = pos[1]
        THEN [d[p] EXCEPT !.runs = before(@) \o placed \o following(after(@)),
                          !.tail = IF pos[2] = Len(d[p].runs) THEN carried \o others(@)
                                   ELSE others(@)]
        ELSE [d[p] EXCEPT !.runs = [i \in 1..Len(@) |-> [@[i] EXCEPT !.before = others(@)]],
                          !.tail = others(@)]]

\* Node.remove() of the runs of rl at the indices ks, the last first.
RECURSIVE remove_runs(_, _, _)
remove_runs(d, rl, ks) ==
  IF ks = {} THEN d
  ELSE remove_runs(SpliceRun(d, rl[CHOOSE k \in ks : \A j \in ks : k >= j], <<>>, {}),
                   rl, ks \ {CHOOSE k \in ks : \A j \in ks : k >= j})

Positions(d) == {RunList(d)[k] : k \in 1..Len(RunList(d))}

\* ----------------------------------------------------------------- history
\* The part of a DocumentState the editing methods read and write:
\*   doc, undo_stack, redo_stack, last_edit_time, last_edit_kind,
\* and uuid, the number of uuid4() values drawn so far for bookmark names.

\* A variant that makes room by dropping the newest entry instead of the oldest.
push_undo_snapshot_drop_newest(stack, snapshot) ==
  IF Len(stack) >= max_history
  THEN Append(SubSeq(stack, 1, Len(stack) - 1), snapshot)
  ELSE Append(stack, snapshot)

push_undo_snapshot(stack, snapshot) ==
  LET pushed == Append(stack, snapshot)
  IN IF Len(pushed) > max_history THEN Tail(pushed) ELSE pushed

\* A variant that coalesces every change made within the window, whatever
\* its kind and the kind before it.
record_change_within_window(s, now, kind) ==
  IF (now - s.last_edit_time) < CoalesceWindow
  THEN [s EXCEPT !.last_edit_time = now]
  ELSE [s EXCEPT !.undo_stack = push_undo_snapshot(s.undo_stack, s.doc),
                 !.redo_stack = <<>>,
                 !.last_edit_time = now,
                 !.last_edit_kind = kind]

\* A variant with no coalescing: every call pushes a snapshot.
record_change_always(s, now, kind) ==
  [s EXCEPT !.undo_stack = push_undo_snapshot(s.undo_stack, s.doc),
            !.redo_stack = <<>>,
            !.last_edit_time = now,
            !.last_edit_kind = kind]

record_change(s, now, kind) ==
  IF kind = "insert" /\ s.last_edit_kind = "insert"
       /\ (now - s.last_edit_time) < CoalesceWindow
  THEN [s EXCEPT !.last_edit_time = now]
  ELSE [s EXCEPT !.undo_stack = push_undo_snapshot(s.undo_stack, s.doc),
                 !.redo_stack = <<>>,
                 !.last_edit_time = now,
                 !.last_edit_kind = kind]

can_undo(s) == Len(s.undo_stack) > 0
can_redo(s) == Len(s.redo_stack) > 0

history(s) ==
  [canUndo |-> can_undo(s), canRedo |-> can_redo(s),
   undoDepth |-> Len(s.undo_stack), redoDepth |-> Len(s.redo_stack)]

\* A variant of undo that does not keep the current document for redo.
undo_discarding(s) ==
  IF ~can_undo(s) THEN [ok |-> FALSE, s |-> s]
  ELSE [ok |-> TRUE,
        s |-> [s EXCEPT !.undo_stack = SubSeq(@, 1, Len(@) - 1),
                        !.doc = s.undo_stack[Len(s.undo_stack)]]]

\* undo and redo return [ok, s]: the method's result and the state it leaves.
undo(s) ==
  IF ~can_undo(s) THEN [ok |-> FALSE, s |-> s]
  ELSE LET current == s.doc
           snapshot == s.undo_stack[Len(s.undo_stack)]
           pushed == Append(s.redo_stack, current)
       IN [ok |-> TRUE,
           s |-> [s EXCEPT !.undo_stack = SubSeq(@, 1, Len(@) - 1),
                           !.redo_stack = IF Len(pushed) > max_history
                                          THEN Tail(pushed) ELSE pushed,
                           !.doc = snapshot]]

redo(s) ==
  IF ~can_redo(s) THEN [ok |-> FALSE, s |-> s]
  ELSE LET current == s.doc
           snapshot == s.redo_stack[Len(s.redo_stack)]
       IN [ok |-> TRUE,
           s |-> [s EXCEPT !.redo_stack = SubSeq(@, 1, Len(@) - 1),
                           !.undo_stack = push_undo_snapshot(s.undo_stack, current),
                           !.doc = snapshot]]

\* ------------------------------------------------------------- span editor
\* A variant of insert_text that gives the inserted run the font of the run
\* it splits, whatever style the request carries.
insert_text_own_font(s0, now, node_id, offset, text, style) ==
  LET s == record_change(s0, now, "insert")
      pos == run_in_bookmark(s.doc, node_id)
  IN IF pos = None THEN s
     ELSE
       LET run == RunAt(s.doc, pos)
           text_len == Len(run.text)
           off == IF offset < 0 THEN 0 ELSE IF offset > text_len THEN text_len ELSE offset
           styled(font) == font
       IN IF Len(text) = 0 THEN s
          ELSE IF off = 0 /\ text_len = 0
          THEN [s EXCEPT !.doc = ReplaceRun(s.doc, pos,
                                   <<[run EXCEPT !.text = text, !.font = styled(@)]>>)]
          ELSE
            LET text_pre == Take(run.text, off)
                text_post == Drop(run.text, off)
                n_pre == IF Len(text_pre) > 0 THEN 1 ELSE 0
                n_post == IF Len(text_post) > 0 THEN 1 ELSE 0
                pre == IF n_pre = 1 THEN <<NewRun(PreName(node_id, s.uuid + 1), text_pre, run.font)>> ELSE <<>>
                inserted == <<NewRun(node_id, text, styled(run.font))>>
                post == IF n_post = 1
                        THEN <<NewRun(PostName(node_id, s.uuid + n_pre + 1), text_post, run.font)>> ELSE <<>>
            IN [s EXCEPT !.doc = SpliceRun(s.doc, pos, pre \o inserted \o post, {node_id}),
                         !.uuid = s.uuid + n_pre + n_post]

\* A variant of insert_text that leaves the address on the text before the
\* insertion point (when there is any) and names the inserted run anew.
insert_text_keep_pre(s0, now, node_id, offset, text, style) ==
  LET s == record_change(s0, now, "insert")
      pos == run_in_bookmark(s.doc, node_id)
  IN IF pos = None THEN s
     ELSE
       LET run == RunAt(s.doc, pos)
           text_len == Len(run.text)
           off == IF offset < 0 THEN 0 ELSE IF offset > text_len THEN text_len ELSE offset
           styled(font) == IF IsSome(style) THEN apply_style_to_font(font, Val(style)) ELSE font
       IN IF Len(text) = 0 THEN s
          ELSE IF off = 0 /\ text_len = 0
          THEN [s EXCEPT !.doc = ReplaceRun(s.doc, pos,
                                   <<[run EXCEPT !.text = text, !.font = styled(@)]>>)]
          ELSE
            LET text_pre == Take(run.text, off)
                text_post == Drop(run.text, off)
                n_pre == IF Len(text_pre) > 0 THEN 1 ELSE 0
                n_post == IF Len(text_post) > 0 THEN 1 ELSE 0
                pre == IF n_pre = 1 THEN <<NewRun(node_id, text_pre, run.font)>> ELSE <<>>
                inserted == <<NewRun(IF n_pre = 1 THEN PreName(node_id, s.uuid + 1) ELSE node_id,
                                     text, styled(run.font))>>
                post == IF n_post = 1
                        THEN <<NewRun(PostName(node_id, s.uuid + n_pre + 1), text_post, run.font)>> ELSE <<>>
            IN [s EXCEPT !.doc = SpliceRun(s.doc, pos, pre \o inserted \o post, {node_id}),
                         !.uuid = s.uuid + n_pre + n_post]

insert_text(s0, now, node_id, offset, text, style) ==
  LET s == record_change(s0, now, "insert")
      pos == run_in_bookmark(s.doc, node_id)
  IN IF pos = None THEN s
     ELSE
       LET run == RunAt(s.doc, pos)
           text_len == Len(run.text)
           off == IF offset < 0 THEN 0 ELSE IF offset > text_len THEN text_len ELSE offset
           styled(font) == IF IsSome(style) THEN apply_style_to_font(font, Val(style)) ELSE font
       IN IF Len(text) = 0 THEN s
          ELSE IF off = 0 /\ text_len = 0
          THEN [s EXCEPT !.doc = ReplaceRun(s.doc, pos,
                                   <<[run EXCEPT !.text = text, !.font = styled(@)]>>)]
          ELSE
            LET text_pre == Take(run.text, off)
                text_post == Drop(run.text, off)
                n_pre == IF Len(text_pre) > 0 THEN 1 ELSE 0
                n_post == IF Len(text_post) > 0 THEN 1 ELSE 0
                pre == IF n_pre = 1 THEN <<NewRun(PreName(node_id, s.uuid + 1), text_pre, run.font)>> ELSE <<>>
                inserted == <<NewRun(node_id, text, styled(run.font))>>
                post == IF n_post = 1
                        THEN <<NewRun(PostName(node_id, s.uuid + n_pre + 1), text_post, run.font)>> ELSE <<>>
            IN [s EXCEPT !.doc = SpliceRun(s.doc, pos, pre \o inserted \o post, {node_id}),
                         !.uuid = s.uuid + n_pre + n_post]

delete_range(s0, now, start_node_id, start_offset, end_node_id, end_offset) ==
  LET s == record_change(s0, now, "delete")
      d == s.doc
      start_pos == run_in_bookmark(d, start_node_id)
      end_pos == run_in_bookmark(d, end_node_id)
  IN IF start_pos = None \/ end_pos = None THEN s
     ELSE IF start_node_id = end_node_id /\ start_pos = end_pos
     THEN
       LET t == RunAt(d, start_pos).text
           so == IF start_offset < 0 THEN 0 ELSE start_offset
           eo == IF end_offset > Len(t) THEN Len(t) ELSE end_offset
       IN IF so >= eo THEN s
          ELSE [s EXCEPT !.doc = ReplaceRun(d, start_pos,
                   <<[RunAt(d, start_pos) EXCEPT !.text = Take(t, so) \o Drop(t, eo)]>>)]
     ELSE
       LET rl == RunList(d)
           ks == IndexOf(rl, start_pos)
           ke == IndexOf(rl, end_pos)
           so == Clamp(0, start_offset, Len(RunAt(d, start_pos).text))
           eo == Clamp(0, end_offset, Len(RunAt(d, end_pos).text))
           \* start_run.text = ...[:start_offset], then end_run.text = ...[end_offset:]
           cut == [[d EXCEPT ![start_pos[1]].runs[start_pos[2]].text = Take(@, so)]
                     EXCEPT ![end_pos[1]].runs[end_pos[2]].text = Drop(@, eo)]
           \* start_run.next_pre_order(...) until end_run, or to the document's end
           removed == {k \in 1..Len(rl) : k > ks /\ k # ke /\ (ke > ks => k < ke)}
       IN [s EXCEPT !.doc = remove_runs(cut, rl, removed)]

\* _prev_run: the run before pos in its paragraph, else the last run of the
\* paragraph just before (None when that paragraph has no run).
prev_run(d, pos) ==
  IF pos[2] > 1 THEN <<pos[1], pos[2] - 1>>
  ELSE IF pos[1] = 1 THEN None
  ELSE IF Len(d[pos[1] - 1].runs) = 0 THEN None
  ELSE <<pos[1] - 1, Len(d[pos[1] - 1].runs)>>

next_run(d, pos) ==
  IF pos[2] < Len(d[pos[1]].runs) THEN <<pos[1], pos[2] + 1>>
  ELSE IF pos[1] = Len(d) THEN None
  ELSE IF Len(d[pos[1] + 1].runs) = 0 THEN None
  ELSE <<pos[1] + 1, 1>>

\* Move every child of paragraph q to the end of paragraph p, then remove q:
\* the bookmark nodes that ended p now come before the first run of q.
MergeParagraphs(d, p, q) ==
  LET joined(front, back) ==
        [front EXCEPT
           !.runs = @ \o (IF back.runs = <<>> THEN <<>>
                          ELSE <<[back.runs[1] EXCEPT !.before = front.tail \o @]>>
                                 \o Tail(back.runs)),
           !.tail = IF back.runs = <<>> THEN @ \o back.tail ELSE back.tail]
      merged == [d EXCEPT ![p] = joined(d[p], d[q])]
  IN SubSeq(merged, 1, q - 1) \o SubSeq(merged, q + 1, Len(merged))

Sel(node_id, offset) == [node_id |-> node_id, offset |-> offset]

\* delete_backward and delete_forward return [s, sel]: the state and the caret.
delete_backward(s0, now, node_id, offset) ==
  LET s == record_change(s0, now, "delete")
      d == s.doc
      pos == run_in_bookmark(d, node_id)
  IN IF pos = None THEN [s |-> s, sel |-> Sel(node_id, Max2(0, offset))]
     ELSE
       LET run == RunAt(d, pos)
           text == run.text
           off == Max2(0, Min2(offset, Len(text)))
           prev == prev_run(d, pos)
       IN IF off > 0
          THEN [s |-> [s EXCEPT !.doc = ReplaceRun(d, pos,
                         <<[run EXCEPT !.text = Take(text, off - 1) \o Drop(text, off)]>>)],
                sel |-> Sel(node_id, off - 1)]
          ELSE IF prev = None THEN [s |-> s, sel |-> Sel(node_id, 0)]
          ELSE
            LET prev_r == RunAt(d, prev)
                name == bookmark_name_for_run(d, prev)
                prev_id == IF IsSome(name) THEN Val(name) ELSE node_id
                prev_text == prev_r.text
            IN IF prev[1] # pos[1]
               THEN [s |-> [s EXCEPT !.doc = MergeParagraphs(d, prev[1], pos[1])],
                     sel |-> Sel(prev_id, Len(prev_text))]
               ELSE IF Len(prev_text) > 0
               THEN [s |-> [s EXCEPT !.doc = ReplaceRun(d, prev,
                              <<[prev_r EXCEPT !.text = Take(prev_text, Len(prev_text) - 1)]>>)],
                     sel |-> Sel(prev_id, Len(prev_text) - 1)]
               ELSE [s |-> s, sel |-> Sel(prev_id, 0)]

delete_forward(s0, now, node_id, offset) ==
  LET s == record_change(s0, now, "delete")
      d == s.doc
      pos == run_in_bookmark(d, node_id)
  IN IF pos = None THEN [s |-> s, sel |-> Sel(node_id, Max2(0, offset))]
     ELSE
       LET run == RunAt(d, pos)
           text == run.text
           off == Max2(0, Min2(offset, Len(text)))
           next == next_run(d, pos)
       IN IF off < Len(text)
          THEN [s |-> [s EXCEPT !.doc = ReplaceRun(d, pos,
                         <<[run EXCEPT !.text = Take(text, off) \o Drop(text, off + 1)]>>)],
                sel |-> Sel(node_id, off)]
          ELSE IF next = None THEN [s |-> s, sel |-> Sel(node_id, off)]
          ELSE
            LET next_r == RunAt(d, next)
                next_text == next_r.text
            IN IF next[1] # pos[1]
               THEN [s |-> [s EXCEPT !.doc = MergeParagraphs(d, pos[1], next[1])],
                     sel |-> Sel(node_id, Len(text))]
               ELSE IF Len(next_text) > 0
               THEN [s |-> [s EXCEPT !.doc = ReplaceRun(d, next,
                              <<[next_r EXCEPT !.text = Tail(next_text)]>>)],
                     sel |-> Sel(node_id, Len(text))]
               ELSE [s |-> s, sel |-> Sel(node_id, Len(text))]

insert_break(s0, now, node_id, offset) ==
  LET s == record_change(s0, now, "break")
      d == s.doc
      pos == run_in_bookmark(d, node_id)
  IN IF pos = None THEN [s |-> s, sel |-> Sel(node_id, 0)]
     ELSE
       LET run == RunAt(d, pos)
           text_original == run.text
           off == Max2(0, Min2(offset, Len(text_original)))
           text_pre == Take(text_original, off)
           text_post == Drop(text_original, off)
           n_pre == IF Len(text_pre) > 0 THEN 1 ELSE 0
           pre == IF n_pre = 1 THEN <<NewRun(PreName(node_id, s.uuid + 1), text_pre, run.font)>> ELSE <<>>
           post_run == NewRun(node_id, text_post, run.font)
           new_para == [NewParagraph EXCEPT !.runs = <<post_run>>]
           \* pre_run takes the run's place; the run itself is removed
           kept == SpliceRun(d, pos, pre, {node_id})
       IN [s |-> [s EXCEPT !.doc = SubSeq(kept, 1, pos[1]) \o <<new_para>>
                                     \o SubSeq(kept, pos[1] + 1, Len(kept)),
                           !.uuid = s.uuid + n_pre],
           sel |-> Sel(node_id, 0)]


\* Python truthiness of an optional string or number.
Truthy(o, empty) == IsSome(o) /\ Val(o) # empty

update_style(s0, now, style) ==
  LET s == record_change(s0, now, "style")
      d == s.doc
      fonts == Truthy(style.font_name, "") \/ Truthy(style.font_size, 0)
                 \/ Truthy(style.color, <<>>) \/ IsSome(style.bold) \/ IsSome(style.italic)
      paras == Truthy(style.alignment, "") \/ IsSome(style.first_line_indent)
      d1 == IF fonts
            THEN [p \in 1..Len(d) |->
                    [d[p] EXCEPT !.runs =
                       [i \in 1..Len(d[p].runs) |->
                          [d[p].runs[i] EXCEPT !.font = apply_style_to_font(@, style)]]]]
            ELSE d
      d2 == IF paras
            THEN [p \in 1..Len(d1) |-> apply_style_to_paragraph(d1[p], style)]
            ELSE d1
  IN [s EXCEPT !.doc = d2]

\* A variant of the split that gives the original name to the first segment
\* (pre when there is one) and a new name to mid.
split_run_keep_first_id(run, bookmark_name, start_offset, end_offset, apply_style, uuid) ==
  LET text_pre == Take(run.text, start_offset)
      text_mid == SubSeq(run.text, start_offset + 1, end_offset)
      text_post == Drop(run.text, end_offset)
      n_pre == IF Len(text_pre) > 0 THEN 1 ELSE 0
      n_post == IF Len(text_post) > 0 THEN 1 ELSE 0
      font_mid == IF IsSome(apply_style)
                  THEN apply_style_to_font(run.font, Val(apply_style)) ELSE run.font
      pre == IF n_pre = 1 THEN <<NewRun(bookmark_name, text_pre, run.font)>> ELSE <<>>
      mid == IF Len(text_mid) > 0
             THEN <<NewRun(IF n_pre = 1 THEN PreName(bookmark_name, uuid + 1) ELSE bookmark_name,
                         text_mid, font_mid)>>
             ELSE <<>>
      post == IF n_post = 1
              THEN <<NewRun(PostName(bookmark_name, uuid + n_pre + 1), text_post, run.font)>> ELSE <<>>
  IN [segs |-> pre \o mid \o post, minted |-> n_pre + n_post, mid |-> mid]

\* A variant of the split whose post segment starts one character late.
split_run_skip_char(run, bookmark_name, start_offset, end_offset, apply_style, uuid) ==
  LET text_pre == Take(run.text, start_offset)
      text_mid == SubSeq(run.text, start_offset + 1, end_offset)
      text_post == Drop(run.text, end_offset + 1)
      n_pre == IF Len(text_pre) > 0 THEN 1 ELSE 0
      n_post == IF Len(text_post) > 0 THEN 1 ELSE 0
      pre == IF n_pre = 1 THEN <<NewRun(PreName(bookmark_name, uuid + 1), text_pre, run.font)>> ELSE <<>>
      mid == IF Len(text_mid) > 0
             THEN <<NewRun(bookmark_name, text_mid,
                           IF IsSome(apply_style)
                           THEN apply_style_to_font(run.font, Val(apply_style))
                           ELSE run.font)>>
             ELSE <<>>
      post == IF n_post = 1
              THEN <<NewRun(PostName(bookmark_name, uuid + n_pre + 1), text_post, run.font)>> ELSE <<>>
  IN [segs |-> pre \o mid \o post, minted |-> n_pre + n_post, mid |-> mid]

\* _split_run_keep_mid_id: the segments that replace the run, in order, and how
\* many bookmark names were minted (uuid is the number drawn before the call).
split_run_keep_mid_id(run, bookmark_name, start_offset, end_offset, apply_style, uuid) ==
  LET text_pre == Take(run.text, start_offset)
      text_mid == SubSeq(run.text, start_offset + 1, end_offset)
      text_post == Drop(run.text, end_offset)
      n_pre == IF Len(text_pre) > 0 THEN 1 ELSE 0
      n_post == IF Len(text_post) > 0 THEN 1 ELSE 0
      pre == IF n_pre = 1 THEN <<NewRun(PreName(bookmark_name, uuid + 1), text_pre, run.font)>> ELSE <<>>
      mid == IF Len(text_mid) > 0
             THEN <<NewRun(bookmark_name, text_mid,
                           IF IsSome(apply_style)
                           THEN apply_style_to_font(run.font, Val(apply_style))
                           ELSE run.font)>>
             ELSE <<>>
      post == IF n_post = 1
              THEN <<NewRun(PostName(bookmark_name, uuid + n_pre + 1), text_post, run.font)>> ELSE <<>>
  IN [segs |-> pre \o mid \o post, minted |-> n_pre + n_post, mid |-> mid]

Selection(a, ao, b, bo) ==
  [startNodeId |-> a, startOffset |-> ao, endNodeId |-> b, endOffset |-> bo]

\* The paragraphs update_range_style gives the paragraph attributes to: the
\* paragraph of every node from start_run to end_run in pre-order (to the
\* document's end when end_run does not follow), and end_run's.
paragraphs_to_update(d, start_pos, end_pos) ==
  IF start_pos = end_pos THEN {start_pos[1]}
  ELSE LET rl == RunList(d)
           follows == IndexOf(rl, end_pos) > IndexOf(rl, start_pos)
       IN {p \in 1..Len(d) : p >= start_pos[1] /\ (follows => p <= end_pos[1])}
            \cup {end_pos[1]}

\* update_range_style, the paragraph attributes: every target paragraph gets
\* them when the style carries an alignment or an indent.
range_paragraph_attrs(d0, start_pos, end_pos, style) ==
  IF Truthy(style.alignment, "") \/ IsSome(style.first_line_indent)
  THEN [p \in 1..Len(d0) |->
          IF p \in paragraphs_to_update(d0, start_pos, end_pos)
          THEN apply_style_to_paragraph(d0[p], style)
          ELSE d0[p]]
  ELSE d0

\* update_range_style, start and end in the same run.
range_style_same_run(s, d, start_pos, start_node_id, so, end_node_id, eo, style) ==
  IF so >= eo
  THEN [s |-> [s EXCEPT !.doc = d],
        sel |-> Some(Selection(start_node_id, so, end_node_id, eo)), raised |-> FALSE]
  ELSE IF so = 0 /\ eo = Len(RunAt(d, start_pos).text)
  THEN [s |-> [s EXCEPT !.doc = ReplaceRun(d, start_pos,
                 <<[RunAt(d, start_pos) EXCEPT !.font = apply_style_to_font(@, style)]>>)],
        sel |-> Some(Selection(start_node_id, 0, end_node_id, eo)), raised |-> FALSE]
  ELSE
    LET sp == split_run_keep_mid_id(RunAt(d, start_pos), start_node_id, so, eo,
                                    Some(style), s.uuid)
    IN [s |-> [s EXCEPT !.doc = SpliceRun(d, start_pos, sp.segs, {start_node_id}),
                        !.uuid = s.uuid + sp.minted],
        sel |-> Some(Selection(start_node_id, 0, end_node_id, Max2(0, eo - so))),
        raised |-> FALSE]

restyled(run, style) == [run EXCEPT !.font = apply_style_to_font(@, style)]

\* update_range_style, the start run (the k-th run of d): left alone when the
\* range starts at its end, restyled whole when it starts at 0, else its
\* bookmark is removed and it is split; [doc, uuid, split].
range_style_start_run(d, uuid, k, start_node_id, so, style) ==
  LET pos == RunList(d)[k]
      run == RunAt(d, pos)
  IN IF so = Len(run.text) THEN [doc |-> d, uuid |-> uuid, split |-> FALSE]
     ELSE IF so = 0
     THEN [doc |-> ReplaceRun(d, pos, <<restyled(run, style)>>), uuid |-> uuid,
           split |-> FALSE]
     ELSE LET sp == split_run_keep_mid_id(run, start_node_id, so, Len(run.text),
                                          Some(style), uuid)
          IN [doc |-> SpliceRun(d, pos, sp.segs, {start_node_id}),
              uuid |-> uuid + sp.minted, split |-> TRUE]

\* update_range_style, the end run (the k-th run of d): left alone when the
\* range ends at 0, restyled whole when it ends at the run's end, else its
\* bookmark is removed and it is split; [doc, uuid, split].
range_style_end_run(d, uuid, k, end_node_id, eo, style) ==
  LET pos == RunList(d)[k]
      run == RunAt(d, pos)
  IN IF eo = 0 THEN [doc |-> d, uuid |-> uuid, split |-> FALSE]
     ELSE IF eo = Len(run.text)
     THEN [doc |-> ReplaceRun(d, pos, <<restyled(run, style)>>), uuid |-> uuid,
           split |-> FALSE]
     ELSE LET sp == split_run_keep_mid_id(run, end_node_id, 0, eo, Some(style), uuid)
          IN [doc |-> SpliceRun(d, pos, sp.segs, {end_node_id}),
              uuid |-> uuid + sp.minted, split |-> TRUE]

\* update_range_style, the loop over the nodes after the start cursor and the
\* end cursor after it.  `from` is the index of the start cursor run, `to`
\* that of the end cursor run (0: the run is no longer in the document, and no
\* node of the document equals it); walk: next_pre_order of the start cursor
\* gave a node.  Every run after the start cursor and before the end cursor is
\* restyled (every run to the document's end when the end cursor does not
\* follow), then the end cursor when the range includes it.
range_style_walk(d, from, to, walk, include_end_run, style) ==
  LET between == {k \in 1..Len(RunList(d)) : walk /\ k > from /\ (to > from => k < to)}
      last == IF include_end_run /\ to > 0 THEN {to} ELSE {}
      styled(doc, ks) ==
        [p \in 1..Len(doc) |->
           [doc[p] EXCEPT !.runs =
              [i \in 1..Len(doc[p].runs) |->
                 IF IndexOf(RunList(doc), <<p, i>>) \in ks
                 THEN restyled(doc[p].runs[i], style) ELSE doc[p].runs[i]]]]
  IN styled(styled(d, between), last)

\* update_range_style, start and end in different runs or under different
\* names: the set of the [s, sel, raised] the method can leave.  When the two
\* names resolve to one run, a split of that run at one end takes the run out
\* of the document and leaves it as the cursor of the other end:
\*  - the end run was split away by the start: _split_run_keep_mid_id of it
\*    raises (its parent_node is None) after the end bookmark was removed, and
\*    with nothing to split the loop runs to the document's end;
\*  - the start cursor was split away by the end: next_pre_order of a node that
\*    is not in the tree is the engine's, it gives no node or raises.
range_style_across_runs(s, d, start_pos, end_pos, start_node_id, so, end_node_id, eo, style) ==
  LET ks == IndexOf(RunList(d), start_pos)
      ke == IndexOf(RunList(d), end_pos)
      splits_end == 0 < eo /\ eo < Len(RunAt(d, end_pos).text)
      gone(first) == ks = ke /\ first.split
      to(first) == IF first.split /\ ke > ks THEN ke + 1 ELSE ke
      ends(first) ==
        IF gone(first)
        THEN {[doc |-> IF splits_end THEN remove_bookmark(first.doc, end_node_id)
                       ELSE first.doc,
               uuid |-> first.uuid, split |-> FALSE]}
        ELSE {range_style_end_run(first.doc, first.uuid, to(first), end_node_id, eo, style)}
      plan(first, last, raised) ==
        [doc |-> last.doc, uuid |-> last.uuid,
         from |-> (IF first.split THEN ks + 1 ELSE ks)
                    + (IF last.split /\ ks > ke THEN 1 ELSE 0),
         to |-> IF gone(first) THEN 0 ELSE to(first),
         walk |-> ~(ks = ke /\ last.split),
         include_end_run |-> eo # 0,
         sel |-> Selection(start_node_id, IF first.split THEN 0 ELSE so, end_node_id, eo),
         raised |-> raised]
      raises(first, last) ==
        IF gone(first) THEN {splits_end}
        ELSE IF ks = ke /\ last.split THEN {FALSE, TRUE}
        ELSE {FALSE}
      plans ==
        UNION {UNION {{plan(first, last, raised) : raised \in raises(first, last)} :
                        last \in ends(first)} :
                 first \in {range_style_start_run(d, s.uuid, ks, start_node_id, so, style)}}
  IN {[s |-> [s EXCEPT !.doc = IF pl.raised THEN pl.doc
                                 ELSE range_style_walk(pl.doc, pl.from, pl.to, pl.walk,
                                                       pl.include_end_run, style),
                       !.uuid = pl.uuid],
       sel |-> IF pl.raised THEN None ELSE Some(pl.sel),
       raised |-> pl.raised] : pl \in plans}

range_style_resolved(s, d, start_pos, end_pos, start_node_id, start_offset, end_node_id, end_offset, style) ==
  IF start_node_id = end_node_id /\ start_pos = end_pos
  THEN {range_style_same_run(
          s, d, start_pos, start_node_id,
          IF start_offset < 0 THEN 0 ELSE start_offset,
          end_node_id,
          IF end_offset > Len(RunAt(d, start_pos).text)
          THEN Len(RunAt(d, start_pos).text) ELSE end_offset,
          style)}
  ELSE range_style_across_runs(
         s, d, start_pos, end_pos, start_node_id,
         Clamp(0, start_offset, Len(RunAt(d, start_pos).text)),
         end_node_id,
         Clamp(0, end_offset, Len(RunAt(d, end_pos).text)),
         style)

\* update_range_style after record_change: the paragraph attributes, then
\* the runs.
range_style_recorded(s, start_pos, end_pos, start_node_id, start_offset, end_node_id, end_offset, style) ==
  range_style_resolved(s, range_paragraph_attrs(s.doc, start_pos, end_pos, style),
                       start_pos, end_pos, start_node_id, start_offset,
                       end_node_id, end_offset, style)

\* update_range_style: the set of the [s, sel, raised] the call can leave: the
\* state, the selection it returns (None when an address does not resolve,
\* and then record_change is not reached) and whether it raised instead of
\* returning.  The set has one element except where the engine decides.
update_range_style(s0, now, start_node_id, start_offset, end_node_id, end_offset, style) ==
  IF run_in_bookmark(s0.doc, start_node_id) = None
       \/ run_in_bookmark(s0.doc, end_node_id) = None
  THEN {[s |-> s0, sel |-> None, raised |-> FALSE]}
  ELSE range_style_recorded(record_change(s0, now, "style"),
                            run_in_bookmark(s0.doc, start_node_id),
                            run_in_bookmark(s0.doc, end_node_id),
                            start_node_id, start_offset, end_node_id, end_offset, style)

update_node_style(s0, now, node_id, start_offset, end_offset, style) ==
  update_range_style(s0, now, node_id, start_offset, node_id, end_offset, style)


\* ------------------------------------------------------------------- loads
\* A variant whose names restart with every load.
inject_bookmarks_restarting(d, uuid) ==
  LET kept(ms) == SelectSeq(ms, LAMBDA m : ~StartsWith(m.name, "Run_"))
      own(run, start) == IF run.id = "" THEN <<>> ELSE <<[start |-> start, name |-> run.id]>>
      closing(para, i) == IF i = 0 THEN <<>> ELSE own(para.runs[i], FALSE)
      wrapped(para, p) ==
        [para EXCEPT
           !.runs = [i \in 1..Len(para.runs) |->
                       [para.runs[i] EXCEPT
                          !.before = kept(closing(para, i - 1) \o @ \o own(para.runs[i], TRUE)),
                          !.id = RunName(2 + IndexOf(RunList(d), <<p, i>>))]],
           !.tail = kept(closing(para, Len(para.runs)) \o @)]
  IN [p \in 1..Len(d) |-> wrapped(d[p], p)]

\* _clear_auto_bookmarks then _inject_bookmarks: the bookmarks whose name
\* starts with "Run_" are removed, every other bookmark stays, and every run
\* is wrapped in a bookmark of a fresh name, in document order (uuid is the
\* number of uuid4() values drawn before).
inject_bookmarks(d, uuid) ==
  LET kept(ms) == SelectSeq(ms, LAMBDA m : ~StartsWith(m.name, "Run_"))
      own(run, start) == IF run.id = "" THEN <<>> ELSE <<[start |-> start, name |-> run.id]>>
      closing(para, i) == IF i = 0 THEN <<>> ELSE own(para.runs[i], FALSE)
      wrapped(para, p) ==
        [para EXCEPT
           !.runs = [i \in 1..Len(para.runs) |->
                       [para.runs[i] EXCEPT
                          !.before = kept(closing(para, i - 1) \o @ \o own(para.runs[i], TRUE)),
                          !.id = RunName(uuid + IndexOf(RunList(d), <<p, i>>))]],
           !.tail = kept(closing(para, Len(para.runs)) \o @)]
  IN [p \in 1..Len(d) |-> wrapped(d[p], p)]

NumRuns(d) == Len(RunList(d))

PlainPara(text) == [NewParagraph EXCEPT !.runs = <<NewRun("", text, DefaultFont)>>]

\* The three lines load_default writes, of 9, 20 and 23 characters.  A
\* character is a string: an ASCII character is itself, any other is named by
\* its code point.
DefaultLine1 ==
  <<"U+8FD9", "U+662F", "U+4E00", "U+4E2A", "U+539F", "U+578B", "U+6587", "U+6863",
    "U+3002">>
DefaultLine2 ==
  <<"U+60A8", "U+53EF", "U+4EE5", "U+4F7F", "U+7528", "U+53F3", "U+4FA7", "U+7684",
    "U+63A7", "U+4EF6", "U+66F4", "U+6539", "U+6587", "U+672C", "U+7684", "U+5B57",
    "U+4F53", "U+6837", "U+5F0F", "U+3002">>
DefaultLine3 ==
  <<"A", "s", "p", "o", "s", "e", ".", "W", "o", "r", "d", "s", " ", "U+4F7F",
    "U+6587", "U+6863", "U+5904", "U+7406", "U+53D8", "U+5F97", "U+7B80", "U+5355",
    "U+FF01">>

\* The document load_default builds: the three written lines and the empty
\* paragraph that follows the last writeln.
DefaultDoc ==
  <<PlainPara(DefaultLine1), PlainPara(DefaultLine2), PlainPara(DefaultLine3),
    NewParagraph>>

\* --------------------------------------------------- concurrency controller
\* _op_cache_key: the four parts as one string, joined by colons; page is
\* the caller's (an optional number, 0 when None).
op_cache_key(req_doc_id, req_base_version, client_op_id, page) ==
  LET p == IF page = None THEN 0 ELSE Val(page)
  IN req_doc_id \o ":" \o ToString(req_base_version) \o ":" \o client_op_id
       \o ":" \o ToString(p)

get_cached_response(ops, key) ==
  IF key \in DOMAIN ops THEN Some(ops[key]) ELSE None

\* A variant of the eviction that drops the newest keys.
RECURSIVE EvictNewest(_, _)
EvictNewest(c, overflow) ==
  IF overflow <= 0 THEN c
  ELSE EvictNewest([ops |-> [k \in DOMAIN c.ops \ {c.order[Len(c.order)]} |-> c.ops[k]],
                    order |-> SubSeq(c.order, 1, Len(c.order) - 1)], overflow - 1)

\* cache_response on the cache c = [ops, order]: first write wins, and the
\* oldest keys leave past max_applied_ops.
RECURSIVE EvictOldest(_, _)
EvictOldest(c, overflow) ==
  IF overflow <= 0 THEN c
  ELSE EvictOldest([ops |-> [k \in DOMAIN c.ops \ {Head(c.order)} |-> c.ops[k]],
                    order |-> Tail(c.order)], overflow - 1)

\* A variant in which the last write wins: a repeated key takes the new payload
\* and moves to the end of the eviction order.
cache_response_overwrite(c, key, payload) ==
  LET others == SelectSeq(c.order, LAMBDA k : k # key)
      added == [ops |-> [k \in DOMAIN c.ops \cup {key} |->
                           IF k = key THEN payload ELSE c.ops[k]],
                order |-> Append(others, key)]
  IN EvictOldest(added, Len(added.order) - max_applied_ops)

cache_response(c, key, payload) ==
  IF key \in DOMAIN c.ops THEN c
  ELSE LET added == [ops |-> [k \in DOMAIN c.ops \cup {key} |->
                                IF k = key THEN payload ELSE c.ops[k]],
                     order |-> Append(c.order, key)]
       IN EvictOldest(added, Len(added.order) - max_applied_ops)

\* A variant that compares the versions only.
validate_version_only(cur_doc_id, cur_version, req_doc_id, req_base_version) ==
  IF req_base_version # cur_version
  THEN Some([error |-> "version_conflict", docId |-> cur_doc_id, version |-> cur_version])
  ELSE None

validate_version(cur_doc_id, cur_version, req_doc_id, req_base_version) ==
  IF req_doc_id # cur_doc_id
  THEN Some([error |-> "doc_conflict", docId |-> cur_doc_id, version |-> cur_version])
  ELSE IF req_base_version # cur_version
  THEN Some([error |-> "version_conflict", docId |-> cur_doc_id, version |-> cur_version])
  ELSE None

\* A variant that counts back down after the first step.
bump_version_back(v) == IF v = 0 THEN 1 ELSE v - 1

bump_version(v) == v + 1

\* ---------------------------------------------------------------- rendering
\* page_count: the engine's layout; here ParasPerPage paragraphs fill a page.
page_count(d) == Max2(1, (Len(d) + ParasPerPage - 1) \div ParasPerPage)

\* Whether the engine's export of a page works at present.  The export is
\* the engine's; when both attempts of get_html fail the method raises.
VARIABLE renders

\* doc.extract_pages(page - 1, 1) saved as HTML: one page of the document.
extract_pages(d, page) == [page |-> Clamp(1, page, page_count(d)), content |-> d]

\* get_html(page): the engine's export of one page of the document, None when
\* the export fails and the method raises HTTPException(500).
get_html(d, page) == IF renders THEN Some(extract_pages(d, page)) ELSE None

\* Whether the engine's export of one paragraph works at present.
VARIABLE exports_paragraph

\* _export_paragraph_html_fragment: the engine's export of one paragraph,
\* None when both attempts fail (para.to_string, then import_node and save).
export_paragraph_html_fragment(para) == IF exports_paragraph THEN Some(para) ELSE None

\* make_paragraph_patch_by_run_id: None when the name resolves to no run and
\* when the paragraph's export gives nothing.
make_paragraph_patch_by_run_id(d, run_bookmark_name) ==
  LET pos == run_in_bookmark(d, run_bookmark_name)
      patch(html) ==
        IF html = None THEN None
        ELSE Some([kind |-> "paragraph", anchorName |-> run_bookmark_name,
                   html |-> Val(html)])
  IN IF pos = None THEN None
     ELSE patch(export_paragraph_html_fragment(d[pos[1]]))

\* A variant that does not compare the two paragraphs.
make_single_paragraph_patch_any_paragraph(d, start_run_id, end_run_id) ==
  LET start_pos == run_in_bookmark(d, start_run_id)
      end_pos == run_in_bookmark(d, end_run_id)
  IN IF start_pos = None \/ end_pos = None THEN None
     ELSE make_paragraph_patch_by_run_id(d, start_run_id)

make_single_paragraph_patch_if_same_paragraph(d, start_run_id, end_run_id) ==
  LET start_pos == run_in_bookmark(d, start_run_id)
      end_pos == run_in_bookmark(d, end_run_id)
  IN IF start_pos = None \/ end_pos = None THEN None
     ELSE IF start_pos[1] # end_pos[1] THEN None
     ELSE make_paragraph_patch_by_run_id(d, start_run_id)

\* A response body.  Every body has the same fields; one the handler does not
\* set is None.
Payload(docId, ver, hist, pageIndex, pageCount) ==
  [error |-> None, docId |-> docId, version |-> ver, history |-> hist,
   pageIndex |-> pageIndex, pageCount |-> pageCount, html |-> None,
   patches |-> None, selection |-> None, didUndo |-> None, didRedo |-> None]

\* payload with "patches" when there is a patch, else with "html": get_html
\* is called only when there is no patch.  A payload that has neither is that
\* of a handler whose get_html call raised.
WithPatchOrHtml(payload, patch, d, page) ==
  IF IsSome(patch) THEN [payload EXCEPT !.patches = Some(<<Val(patch)>>)]
  ELSE [payload EXCEPT !.html = get_html(d, page)]

\* get_html raised while the handler built this payload.
Unrendered(payload) == payload.html = None /\ payload.patches = None

\* What the server answers when a handler raises HTTPException(500).
RenderFailure ==
  [status |-> 500,
   body |-> [Payload("", 0, <<>>, 0, 0) EXCEPT !.error = Some("Failed to render page")]]

CaretSelection(sel) == Selection(sel.node_id, sel.offset, sel.node_id, sel.offset)


\* ------------------------------------------------------------------- state
VARIABLES
  doc_id, version, doc, undo_stack, redo_stack, last_edit_time, last_edit_kind,
  applied_ops, applied_ops_order,   \* the fields of doc_state
  uuid,        \* how many uuid4() values were drawn
  now,         \* time.monotonic(), in tenths of a time unit
  uploads,     \* upload_document calls suspended at `await file.read()`
  req, resp,   \* the last request handled and the response it got
  outcome,     \* how the handler left: cached, conflict, applied, ...
  first_resp,  \* request key -> [req, payload] of the request's first application
  applied_n,   \* client operation (endpoint, body, docId, baseVersion, clientOpId)
               \* -> times its edit was applied
  nsteps,      \* requests that passed validation so far
  seen,        \* every address that was ever bound in the document
  trail        \* the accepted edits since the last load or undo/redo, and the
               \* undo and redo requests that followed them

state_vars ==
  <<doc_id, version, doc, undo_stack, redo_stack, last_edit_time, last_edit_kind,
    applied_ops, applied_ops_order>>
vars ==
  <<doc_id, version, doc, undo_stack, redo_stack, last_edit_time, last_edit_kind,
    applied_ops, applied_ops_order, uuid, now, uploads, req, resp, outcome,
    first_resp, applied_n, nsteps, seen, trail, renders, exports_paragraph>>

\* The editing methods' view of doc_state.
EditState ==
  [doc |-> doc, undo_stack |-> undo_stack, redo_stack |-> redo_stack,
   last_edit_time |-> last_edit_time, last_edit_kind |-> last_edit_kind,
   uuid |-> uuid]

Install(s) ==
  /\ doc' = s.doc
  /\ undo_stack' = s.undo_stack
  /\ redo_stack' = s.redo_stack
  /\ last_edit_time' = s.last_edit_time
  /\ last_edit_kind' = s.last_edit_kind
  /\ uuid' = s.uuid
  /\ seen' = seen \cup Addresses(s.doc)

Cache == [ops |-> applied_ops, order |-> applied_ops_order]

\* A request: the versioned triple, the page query parameter, the endpoint
\* and the endpoint's own arguments.
Request(op, t, args) ==
  [op |-> op, doc_id |-> t.doc_id, base_version |-> t.base_version,
   client_op_id |-> t.client_op_id, page |-> t.page, args |-> args]

\* Document ids and client operation ids are strings; the clients number
\* their operations.
OpId(n) == ToString(n)
NoToken == [doc_id |-> "", base_version |-> 0, client_op_id |-> "", page |-> 0]
NoRequest == Request("none", NoToken, <<>>)

RequestKey(r) == op_cache_key(r.doc_id, r.base_version, r.client_op_id, Some(r.page))
OpKey(r) == <<r.op, r.args, r.doc_id, r.base_version, r.client_op_id>>

CountOf(f, k) == IF k \in DOMAIN f THEN f[k] ELSE 0
Put(f, k, v) == [x \in DOMAIN f \cup {k} |-> IF x = k THEN v ELSE f[x]]

NoResponse == [status |-> 0, body |-> Payload("", 0, <<>>, 0, 0)]

\* What the client did since the document was loaded: `past` holds, for each
\* accepted edit since the load (or since the last edit that followed an undo
\* or redo), the document before it, its endpoint, the time of the call and
\* whether the undo stack changed; `post` is the document after the last of
\* them; `undos` counts the undo requests accepted since, `redos` the redo
\* requests accepted after those (undos = -1: an undo followed a redo);
\* `reported` is the docId and version in the response of the most recent
\* accepted mutation or load (None before the first).
NoTrail(d) == [past |-> <<>>, post |-> d, undos |-> 0, redos |-> 0, reported |-> None]

Reported(docId, ver) == Some([docId |-> docId, version |-> ver])

LastN(seq, n) == IF Len(seq) <= n THEN seq ELSE SubSeq(seq, Len(seq) - n + 1, Len(seq))

TrailAfter(t, r, before, s, time) ==
  IF r.op = "undo"
  THEN [t EXCEPT !.undos = IF @ >= 0 /\ t.redos = 0 THEN @ + 1 ELSE -1]
  ELSE IF r.op = "redo"
  THEN [t EXCEPT !.redos = @ + 1]
  ELSE [past |-> LastN((IF t.undos = 0 /\ t.redos = 0 THEN t.past ELSE <<>>)
                         \o <<[doc |-> before.doc, op |-> r.op, time |-> time,
                               pushed |-> s.undo_stack # before.undo_stack]>>,
                       max_history),
        post |-> s.doc, undos |-> 0, redos |-> 0, reported |-> t.reported]

\* __init__ (one doc id) then load_default: _reset_identity (another doc id),
\* the default document with a bookmark around each run, empty stacks.
Init ==
  /\ doc_id = uuid4_hex(2)
  /\ version = 0
  /\ doc = inject_bookmarks(DefaultDoc, 2)
  /\ undo_stack = <<>>
  /\ redo_stack = <<>>
  /\ last_edit_time = 0
  /\ last_edit_kind = "None"
  /\ applied_ops = <<>>
  /\ applied_ops_order = <<>>
  /\ uuid = 2 + NumRuns(DefaultDoc)
  /\ now = StartTime
  /\ uploads = <<>>
  /\ req = NoRequest
  /\ resp = NoResponse
  /\ outcome = "constructed"
  /\ first_resp = <<>>
  /\ applied_n = <<>>
  /\ nsteps = 0
  /\ seen = Addresses(inject_bookmarks(DefaultDoc, 2))
  /\ trail = NoTrail(inject_bookmarks(DefaultDoc, 2))
  /\ renders = TRUE
  /\ exports_paragraph = TRUE

\* _conflict_response: the 409 response, or the 500 of get_html.
conflict_response(conflict, page) ==
  LET total == page_count(doc)
      pg == Clamp(1, page, total)
      payload == [Payload(conflict.docId, conflict.version, history(EditState), pg, total)
                    EXCEPT !.error = Some(conflict.error),
                           !.html = get_html(doc, pg)]
  IN IF Unrendered(payload) THEN RenderFailure ELSE [status |-> 409, body |-> payload]

\* The handler returns the cached payload.
ReplyCached(r, cached) ==
  /\ req' = r
  /\ resp' = [status |-> 200, body |-> cached]
  /\ outcome' = "cached"
  /\ UNCHANGED <<state_vars, uuid, now, uploads, first_resp, applied_n, nsteps, seen, trail,
                 renders, exports_paragraph>>

\* The handler returns the conflict response.
ReplyConflict(r, conflict) ==
  /\ req' = r
  /\ resp' = conflict_response(conflict, r.page)
  /\ outcome' = IF resp'.status = 409 THEN "conflict" ELSE "conflict_render_failed"
  /\ UNCHANGED <<state_vars, uuid, now, uploads, first_resp, applied_n, nsteps, seen, trail,
                 renders, exports_paragraph>>

\* The tail of a handler that passed validation: the edited state s, the
\* version v, the payload, and the cache write under the request's docId,
\* baseVersion and clientOpId and the page the handler holds by then.
Commit(r, s, v, page, payload, applied) ==
  LET c == cache_response(Cache, op_cache_key(r.doc_id, r.base_version,
                                               r.client_op_id, Some(page)), payload)
  IN /\ Install(s)
     /\ version' = v
     /\ doc_id' = doc_id
     /\ applied_ops' = c.ops
     /\ applied_ops_order' = c.order
     /\ req' = r
     /\ resp' = [status |-> 200, body |-> payload]
     /\ outcome' = IF applied THEN "applied" ELSE "not_applied"
     /\ first_resp' = IF applied /\ RequestKey(r) \notin DOMAIN first_resp
                      THEN Put(first_resp, RequestKey(r), [req |-> r, payload |-> payload])
                      ELSE first_resp
     /\ applied_n' = IF applied THEN Put(applied_n, OpKey(r), CountOf(applied_n, OpKey(r)) + 1)
                     ELSE applied_n
     /\ nsteps' = nsteps + 1
     /\ trail' = [TrailAfter(trail, r, EditState, s, now)
                    EXCEPT !.reported = Reported(payload.docId, payload.version)]
     /\ UNCHANGED <<now, uploads, renders, exports_paragraph>>

\* The tail of a handler that passed validation and whose get_html call
\* raised: the edit and the version bump were made before the call, the cache
\* write comes after it and is not reached; the server answers 500.
Unanswered(r, s, v, applied) ==
  /\ Install(s)
  /\ version' = v
  /\ doc_id' = doc_id
  /\ req' = r
  /\ resp' = RenderFailure
  /\ outcome' = "render_failed"
  /\ applied_n' = IF applied THEN Put(applied_n, OpKey(r), CountOf(applied_n, OpKey(r)) + 1)
                  ELSE applied_n
  /\ nsteps' = nsteps + 1
  /\ trail' = TrailAfter(trail, r, EditState, s, now)
  /\ UNCHANGED <<applied_ops, applied_ops_order, first_resp, now, uploads, renders, exports_paragraph>>

\* The tail of a handler that passed validation.
Answer(r, s, v, page, payload, applied) ==
  IF Unrendered(payload) THEN Unanswered(r, s, v, applied)
  ELSE Commit(r, s, v, page, payload, applied)

\* The handler raised after validation: the server answers 500.  What the
\* method did to the state before it raised stays; the version is not bumped
\* and nothing is cached.
Raise(r, s) ==
  /\ Install(s)
  /\ req' = r
  /\ resp' = [status |-> 500,
              body |-> [Payload("", 0, <<>>, 0, 0) EXCEPT !.error = Some("Internal Server Error")]]
  /\ outcome' = "raised"
  /\ nsteps' = nsteps + 1
  /\ trail' = TrailAfter(trail, r, EditState, s, now)
  /\ UNCHANGED <<doc_id, version, applied_ops, applied_ops_order, now, uploads,
                 first_resp, applied_n, renders, exports_paragraph>>

\* Every mutating handler starts the same way: the cache, then the version.
Cached(r) == get_cached_response(applied_ops, RequestKey(r))
Conflict(r) == validate_version(doc_id, version, r.doc_id, r.base_version)

\* -------------------------------------------------------------- endpoints
insert_text_endpoint(t, node_id, offset, text, style) ==
  LET r == Request("insert_text", t, <<node_id, offset, text, style>>)
  IN IF IsSome(Cached(r)) THEN ReplyCached(r, Val(Cached(r)))
     ELSE IF IsSome(Conflict(r)) THEN ReplyConflict(r, Val(Conflict(r)))
     ELSE \E done \in {insert_text(EditState, now, node_id, offset, text, style)} :
       LET v == bump_version(version)
           total == page_count(done.doc)
           page == Clamp(1, t.page, total)
       IN \E payload \in
                 {WithPatchOrHtml(Payload(doc_id, v, history(done), page, total),
                        make_paragraph_patch_by_run_id(done.doc, node_id), done.doc, page)} :
            Answer(r, done, v, page, payload, TRUE)

delete_range_endpoint(t, start_node_id, start_offset, end_node_id, end_offset) ==
  LET r == Request("delete_range", t, <<start_node_id, start_offset, end_node_id, end_offset>>)
  IN IF IsSome(Cached(r)) THEN ReplyCached(r, Val(Cached(r)))
     ELSE IF IsSome(Conflict(r)) THEN ReplyConflict(r, Val(Conflict(r)))
     ELSE \E done \in {delete_range(EditState, now, start_node_id, start_offset,
                                     end_node_id, end_offset)} :
       LET v == bump_version(version)
           total == page_count(done.doc)
           page == Clamp(1, t.page, total)
       IN \E payload \in
                 {WithPatchOrHtml(Payload(doc_id, v, history(done), page, total),
                        make_single_paragraph_patch_if_same_paragraph(
                          done.doc, start_node_id, end_node_id), done.doc, page)} :
            Answer(r, done, v, page, payload, TRUE)

\* for _ in range(count): sel = doc_state.delete_backward(sel.node_id, sel.offset)
RECURSIVE delete_backward_loop(_, _, _, _)
delete_backward_loop(s, t, sel, count) ==
  IF count = 0 THEN [s |-> s, sel |-> sel]
  ELSE LET step == delete_backward(s, t, sel.node_id, sel.offset)
       IN delete_backward_loop(step.s, t, step.sel, count - 1)

RECURSIVE delete_forward_loop(_, _, _, _)
delete_forward_loop(s, t, sel, count) ==
  IF count = 0 THEN [s |-> s, sel |-> sel]
  ELSE LET step == delete_forward(s, t, sel.node_id, sel.offset)
       IN delete_forward_loop(step.s, t, step.sel, count - 1)

\* max(1, int(count or 1))
LoopCount(count) == Max2(1, IF count = 0 THEN 1 ELSE count)

delete_backward_endpoint(t, node_id, offset, count) ==
  LET r == Request("delete_backward", t, <<node_id, offset, count>>)
  IN IF IsSome(Cached(r)) THEN ReplyCached(r, Val(Cached(r)))
     ELSE IF IsSome(Conflict(r)) THEN ReplyConflict(r, Val(Conflict(r)))
     ELSE \E done \in {delete_backward_loop(EditState, now, Sel(node_id, Max2(0, offset)),
                                             LoopCount(count))} :
       LET v == bump_version(version)
           total == page_count(done.s.doc)
           page == Clamp(1, t.page, total)
       IN \E payload \in
                 {[WithPatchOrHtml(Payload(doc_id, v, history(done.s), page, total),
                        make_paragraph_patch_by_run_id(done.s.doc, done.sel.node_id), done.s.doc, page)
                        EXCEPT !.selection = Some(CaretSelection(done.sel))]} :
            Answer(r, done.s, v, page, payload, TRUE)

delete_forward_endpoint(t, node_id, offset, count) ==
  LET r == Request("delete_forward", t, <<node_id, offset, count>>)
  IN IF IsSome(Cached(r)) THEN ReplyCached(r, Val(Cached(r)))
     ELSE IF IsSome(Conflict(r)) THEN ReplyConflict(r, Val(Conflict(r)))
     ELSE \E done \in {delete_forward_loop(EditState, now, Sel(node_id, Max2(0, offset)),
                                            LoopCount(count))} :
       LET v == bump_version(version)
           total == page_count(done.s.doc)
           page == Clamp(1, t.page, total)
       IN \E payload \in
                 {[WithPatchOrHtml(Payload(doc_id, v, history(done.s), page, total),
                        make_paragraph_patch_by_run_id(done.s.doc, done.sel.node_id), done.s.doc, page)
                        EXCEPT !.selection = Some(CaretSelection(done.sel))]} :
            Answer(r, done.s, v, page, payload, TRUE)

insert_break_endpoint(t, node_id, offset) ==
  LET r == Request("insert_break", t, <<node_id, offset>>)
  IN IF IsSome(Cached(r)) THEN ReplyCached(r, Val(Cached(r)))
     ELSE IF IsSome(Conflict(r)) THEN ReplyConflict(r, Val(Conflict(r)))
     ELSE \E done \in {insert_break(EditState, now, node_id, offset)} :
       LET v == bump_version(version)
           total == page_count(done.s.doc)
           page == Clamp(1, t.page, total)
       IN \E payload \in
                 {[Payload(doc_id, v, history(done.s), page, total)
                        EXCEPT !.html = get_html(done.s.doc, page),
                               !.selection = Some(CaretSelection(done.sel))]} :
            Answer(r, done.s, v, page, payload, TRUE)

update_document(t, style) ==
  LET r == Request("update", t, <<style>>)
  IN IF IsSome(Cached(r)) THEN ReplyCached(r, Val(Cached(r)))
     ELSE IF IsSome(Conflict(r)) THEN ReplyConflict(r, Val(Conflict(r)))
     ELSE \E done \in {update_style(EditState, now, style)} :
       LET v == bump_version(version)
           total == page_count(done.doc)
           page == Clamp(1, t.page, total)
       IN \E payload \in
                 {[Payload(doc_id, v, history(done), page, total)
                        EXCEPT !.html = get_html(done.doc, page)]} :
            Answer(r, done, v, page, payload, TRUE)

update_node(t, node_id, start_offset, end_offset, style) ==
  LET r == Request("update_node", t, <<node_id, start_offset, end_offset, style>>)
  IN IF IsSome(Cached(r)) THEN ReplyCached(r, Val(Cached(r)))
     ELSE IF IsSome(Conflict(r)) THEN ReplyConflict(r, Val(Conflict(r)))
     ELSE \E done \in update_node_style(EditState, now, node_id, start_offset,
                                         end_offset, style) :
       IF done.raised THEN Raise(r, done.s) ELSE
       LET v == bump_version(version)
           total == page_count(done.s.doc)
           page == Clamp(1, t.page, total)
       IN \E payload \in
                 {[WithPatchOrHtml(Payload(doc_id, v, history(done.s), page, total),
                        make_paragraph_patch_by_run_id(done.s.doc, node_id), done.s.doc, page)
                        EXCEPT !.selection = done.sel]} :
            Answer(r, done.s, v, page, payload, TRUE)

update_range(t, start_node_id, start_offset, end_node_id, end_offset, style) ==
  LET r == Request("update_range", t, <<start_node_id, start_offset, end_node_id, end_offset, style>>)
  IN IF IsSome(Cached(r)) THEN ReplyCached(r, Val(Cached(r)))
     ELSE IF IsSome(Conflict(r)) THEN ReplyConflict(r, Val(Conflict(r)))
     ELSE \E done \in update_range_style(EditState, now, start_node_id, start_offset,
                                          end_node_id, end_offset, style) :
       IF done.raised THEN Raise(r, done.s) ELSE
       LET v == bump_version(version)
           total == page_count(done.s.doc)
           page == Clamp(1, t.page, total)
       IN \E payload \in
                 {[WithPatchOrHtml(Payload(doc_id, v, history(done.s), page, total),
                        make_single_paragraph_patch_if_same_paragraph(
                          done.s.doc, start_node_id, end_node_id), done.s.doc, page)
                        EXCEPT !.selection = done.sel]} :
            Answer(r, done.s, v, page, payload, TRUE)

undo_document(t) ==
  LET r == Request("undo", t, <<>>)
  IN IF IsSome(Cached(r)) THEN ReplyCached(r, Val(Cached(r)))
     ELSE IF IsSome(Conflict(r)) THEN ReplyConflict(r, Val(Conflict(r)))
     ELSE \E done \in {undo(EditState)} :
       LET v == IF done.ok THEN bump_version(version) ELSE version
           total == page_count(done.s.doc)
           page == Clamp(1, t.page, total)
       IN \E payload \in
                 {[Payload(doc_id, v, history(done.s), page, total)
                        EXCEPT !.html = get_html(done.s.doc, page),
                               !.didUndo = Some(done.ok)]} :
            Answer(r, done.s, v, page, payload, done.ok)

redo_document(t) ==
  LET r == Request("redo", t, <<>>)
  IN IF IsSome(Cached(r)) THEN ReplyCached(r, Val(Cached(r)))
     ELSE IF IsSome(Conflict(r)) THEN ReplyConflict(r, Val(Conflict(r)))
     ELSE \E done \in {redo(EditState)} :
       LET v == IF done.ok THEN bump_version(version) ELSE version
           total == page_count(done.s.doc)
           page == Clamp(1, t.page, total)
       IN \E payload \in
                 {[Payload(doc_id, v, history(done.s), page, total)
                        EXCEPT !.html = get_html(done.s.doc, page),
                               !.didRedo = Some(done.ok)]} :
            Answer(r, done.s, v, page, payload, done.ok)


\* upload_document up to `content = await file.read()`: the cache, the version,
\* then the coroutine is suspended and other requests may be handled.  At most
\* `pending` calls are suspended at a time.
upload_document_begin(t, file, pending) ==
  LET r == Request("upload", t, <<file>>)
  IN IF IsSome(Cached(r)) THEN ReplyCached(r, Val(Cached(r)))
     ELSE IF IsSome(Conflict(r)) THEN ReplyConflict(r, Val(Conflict(r)))
     ELSE /\ Len(uploads) < pending
          /\ uploads' = Append(uploads, r)
          /\ req' = r
          /\ resp' = NoResponse
          /\ outcome' = "suspended"
          /\ UNCHANGED <<state_vars, uuid, now, first_resp, applied_n, nsteps, seen, trail,
                         renders, exports_paragraph>>

\* load_from_stream on the bytes of `file` (None: bytes the engine cannot
\* parse).  _reset_identity comes first, inside the try.
load_from_stream(s, file, uuid0) ==
  IF file = None
  THEN [ok |-> FALSE, doc_id |-> uuid4_hex(uuid0 + 1), version |-> 0, s |-> [s EXCEPT !.uuid = uuid0 + 1]]
  ELSE [ok |-> TRUE, doc_id |-> uuid4_hex(uuid0 + 1), version |-> 0,
        s |-> [s EXCEPT !.doc = inject_bookmarks(Val(file), uuid0 + 1),
                        !.uuid = uuid0 + 1 + NumRuns(Val(file)),
                        !.last_edit_time = 0,
                        !.last_edit_kind = "None"]]

\* upload_document from the await on, for the i-th suspended call.  When
\* the bytes parse and get_html raises, the document is loaded and the
\* snapshot pushed, and nothing is cached.
upload_document_finish(i) ==
  LET r == uploads[i]
      snapshot == doc
      loaded == load_from_stream(EditState, r.args[1], uuid)
      s == IF loaded.ok
           THEN [loaded.s EXCEPT !.undo_stack = push_undo_snapshot(@, snapshot),
                                 !.redo_stack = <<>>]
           ELSE loaded.s
      total == page_count(s.doc)
      page == 1
      payload == [Payload(loaded.doc_id, loaded.version, history(s), page, total)
                    EXCEPT !.html = get_html(s.doc, page)]
      answered == loaded.ok /\ ~Unrendered(payload)
      c == IF answered
           THEN cache_response(Cache, op_cache_key(r.doc_id, r.base_version,
                                                   r.client_op_id, Some(page)), payload)
           ELSE Cache
  IN /\ uploads' = SubSeq(uploads, 1, i - 1) \o SubSeq(uploads, i + 1, Len(uploads))
     /\ Install(s)
     /\ doc_id' = loaded.doc_id
     /\ version' = loaded.version
     /\ applied_ops' = c.ops
     /\ applied_ops_order' = c.order
     /\ req' = r
     /\ resp' = IF answered THEN [status |-> 200, body |-> payload]
                ELSE IF loaded.ok THEN RenderFailure
                ELSE [status |-> 400,
                      body |-> [Payload("", 0, <<>>, 0, 0)
                                  EXCEPT !.error = Some("Invalid document format")]]
     /\ outcome' = IF answered THEN "applied"
                   ELSE IF loaded.ok THEN "render_failed" ELSE "failed"
     /\ first_resp' = IF answered /\ RequestKey(r) \notin DOMAIN first_resp
                      THEN Put(first_resp, RequestKey(r), [req |-> r, payload |-> payload])
                      ELSE first_resp
     /\ applied_n' = IF loaded.ok
                     THEN Put(applied_n, OpKey(r), CountOf(applied_n, OpKey(r)) + 1)
                     ELSE applied_n
     /\ nsteps' = nsteps + 1
     /\ trail' = IF answered
                  THEN [NoTrail(s.doc) EXCEPT !.reported = Reported(loaded.doc_id, loaded.version)]
                  ELSE IF loaded.ok THEN NoTrail(s.doc)
                  ELSE trail
     /\ UNCHANGED <<now, renders, exports_paragraph>>

\* load_default: a new identity, the default document, empty stacks.
load_default(s, uuid0) ==
  [doc_id |-> uuid4_hex(uuid0 + 1), version |-> 0,
   s |-> [doc |-> inject_bookmarks(DefaultDoc, uuid0 + 1),
          undo_stack |-> <<>>, redo_stack |-> <<>>,
          last_edit_time |-> 0, last_edit_kind |-> "None",
          uuid |-> uuid0 + 1 + NumRuns(DefaultDoc)]]

PageToken(page) == [NoToken EXCEPT !.page = page]

\* init_document: the default load, then the response or the 500 of get_html.
init_document(page) ==
  LET loaded == load_default(EditState, uuid)
      s == loaded.s
      total == page_count(s.doc)
      pg == Clamp(1, page, total)
      payload == [Payload(loaded.doc_id, loaded.version, history(s), pg, total)
                    EXCEPT !.html = get_html(s.doc, pg)]
  IN /\ Install(s)
     /\ doc_id' = loaded.doc_id
     /\ version' = loaded.version
     /\ req' = Request("init", PageToken(page), <<>>)
     /\ resp' = IF Unrendered(payload) THEN RenderFailure
                ELSE [status |-> 200, body |-> payload]
     /\ outcome' = IF Unrendered(payload) THEN "render_failed" ELSE "loaded"
     /\ nsteps' = nsteps + 1
     /\ trail' = IF Unrendered(payload) THEN NoTrail(s.doc)
                 ELSE [NoTrail(s.doc) EXCEPT !.reported = Reported(loaded.doc_id, loaded.version)]
     /\ UNCHANGED <<applied_ops, applied_ops_order, now, uploads, first_resp, applied_n,
                    renders, exports_paragraph>>

render_document(page) ==
  LET total == page_count(doc)
      pg == Clamp(1, page, total)
      payload == [Payload(doc_id, version, history(EditState), pg, total)
                    EXCEPT !.html = get_html(doc, pg)]
  IN /\ req' = Request("render", PageToken(page), <<>>)
     /\ resp' = IF Unrendered(payload) THEN RenderFailure
                ELSE [status |-> 200, body |-> payload]
     /\ outcome' = IF Unrendered(payload) THEN "render_failed" ELSE "read"
     /\ UNCHANGED <<state_vars, uuid, now, uploads, first_resp, applied_n, nsteps, seen, trail,
                    renders, exports_paragraph>>

\* Time passes between requests.
Tick(delta) ==
  /\ now + delta <= StartTime + MaxElapsed
  /\ now' = now + delta
  /\ UNCHANGED <<state_vars, uuid, uploads, req, resp, outcome, first_resp,
                 applied_n, nsteps, seen, trail, renders, exports_paragraph>>

\* The engine's export of a page, or of a paragraph, stops working or works
\* again.
Engine(page_works, paragraph_works) ==
  /\ <<renders, exports_paragraph>> # <<page_works, paragraph_works>>
  /\ renders' = page_works
  /\ exports_paragraph' = paragraph_works
  /\ UNCHANGED <<state_vars, uuid, now, uploads, req, resp, outcome, first_resp,
                 applied_n, nsteps, seen, trail>>


\* ------------------------------------------------------------ environment
\* What clients send.  A new request carries the identity and version the
\* server holds; a stale one carries another docId or another version; a
\* retransmission repeats a request that was applied, with the same page or
\* another one.
Token(d, v, o, p) == [doc_id |-> d, base_version |-> v, client_op_id |-> o, page |-> p]
TokenOf(r) == Token(r.doc_id, r.base_version, r.client_op_id, r.page)

Pages == {1, 2}
NewTokens(op_ids, pages) == {Token(doc_id, version, OpId(o), p) : o \in op_ids, p \in pages}
StaleTokens == {Token(doc_id, version + 1, OpId(1), 1), Token(uuid4_hex(1), version, OpId(1), 1)}
Retransmitted(op) ==
  {[first_resp[k].req EXCEPT !.page = p] :
     k \in {x \in DOMAIN first_resp : first_resp[x].req.op = op}, p \in Pages}
\* Requests the key of the cache does not tell apart: one of the server's
\* docId and version whose client operation id holds a colon, and requests
\* whose docId ends with a colon and a version.
ColonTokens ==
  {Token(doc_id, version, "7:abc", 1)}
    \cup {Token(doc_id \o ":" \o ToString(v), 7, "abc", 1) : v \in 0..version}
Requests(op, op_ids, pages, args) ==
  {Request(op, t, a) : t \in NewTokens(op_ids, pages) \cup StaleTokens, a \in args}
    \cup Retransmitted(op)

\* The address of the k-th run of the document, "" (bound to nothing) if none.
Addr(k) == IF k <= NumRuns(doc) THEN RunAt(doc, RunList(doc)[k]).id ELSE ""

\* The length of the text of the k-th run of the document, 0 if none: the
\* offset of the end of the run.
End(k) == IF k <= NumRuns(doc) THEN Len(RunAt(doc, RunList(doc)[k]).text) ELSE 0

Bold == [NoStyle EXCEPT !.bold = Some(TRUE)]
Red == [NoStyle EXCEPT !.color = Some(<<"#", "f", "f", "0", "0", "0", "0">>)]
Centered == [NoStyle EXCEPT !.alignment = Some("Center")]

\* An uploaded file: None (not a document) or the document it holds, as the
\* engine parses it: one paragraph of two runs, "x" and a bold "yz"; around
\* the first a bookmark an earlier load of this service put there and the
\* file kept, around the second a bookmark "Foo" of the author's.
UploadedDoc ==
  <<[NewParagraph EXCEPT
       !.runs = <<[NewRun("", <<"x">>, DefaultFont)
                     EXCEPT !.before = <<BookmarkStart(RunName(0))>>],
                  [NewRun("", <<"y", "z">>, [DefaultFont EXCEPT !.bold = TRUE])
                     EXCEPT !.before = <<BookmarkEnd(RunName(0)), BookmarkStart("Foo")>>]>>,
       !.tail = <<BookmarkEnd("Foo")>>]>>
Files == {None, Some(UploadedDoc)}

\* The environment sends a request that will pass validation only while fewer
\* than `budget` requests were accepted or are suspended; retransmissions that
\* hit the cache and stale requests are sent at any time.
Admit(r, budget) ==
  \/ nsteps + Len(uploads) < budget
  \/ IsSome(Cached(r))
  \/ IsSome(Conflict(r))

Next ==
  \/ \E r \in Requests("insert_text", {1}, Pages, {<<Addr(1), 1, <<"x">>, None>>}) :
       /\ Admit(r, MaxRequests)
       /\ insert_text_endpoint(TokenOf(r), r.args[1], r.args[2], r.args[3], r.args[4])
  \/ \E t \in ColonTokens :
       /\ Admit(Request("insert_text", t, <<Addr(1), 1, <<"x">>, None>>), MaxRequests)
       /\ insert_text_endpoint(t, Addr(1), 1, <<"x">>, None)
  \/ \E r \in Requests("delete_range", {2}, {1}, {<<Addr(1), 1, Addr(2), 1>>}) :
       /\ Admit(r, MaxRequests)
       /\ delete_range_endpoint(TokenOf(r), r.args[1], r.args[2], r.args[3], r.args[4])
  \/ \E r \in Requests("delete_backward", {3}, {1}, {<<Addr(2), 0, 1>>, <<Addr(2), 0, 2>>}) :
       /\ Admit(r, MaxRequests)
       /\ delete_backward_endpoint(TokenOf(r), r.args[1], r.args[2], r.args[3])
  \/ \E r \in Requests("delete_forward", {4}, {1}, {<<Addr(1), 1, 1>>}) :
       /\ Admit(r, MaxRequests)
       /\ delete_forward_endpoint(TokenOf(r), r.args[1], r.args[2], r.args[3])
  \/ \E r \in Requests("insert_break", {5}, {1}, {<<Addr(1), 1>>}) :
       /\ Admit(r, MaxRequests)
       /\ insert_break_endpoint(TokenOf(r), r.args[1], r.args[2])
  \/ \E r \in Requests("update", {6}, {1}, {<<Bold>>}) :
       /\ Admit(r, MaxRequests)
       /\ update_document(TokenOf(r), r.args[1])
  \/ \E r \in Requests("update_node", {7}, {1}, {<<Addr(1), 0, 1, Red>>}) :
       /\ Admit(r, MaxRequests)
       /\ update_node(TokenOf(r), r.args[1], r.args[2], r.args[3], r.args[4])
  \/ \E r \in Requests("update_range", {8}, {1},
                       {<<Addr(1), 1, Addr(2), 1, Bold>>, <<"", 0, "", 1, Bold>>,
                        <<"Foo", 1, Addr(2), 1, Bold>>}) :
       /\ Admit(r, MaxRequests)
       /\ update_range(TokenOf(r), r.args[1], r.args[2], r.args[3], r.args[4], r.args[5])
  \/ \E r \in Requests("undo", {9}, Pages, {<<>>}) :
       Admit(r, MaxRequests) /\ undo_document(TokenOf(r))
  \/ \E r \in Requests("redo", {10}, {1}, {<<>>}) :
       Admit(r, MaxRequests) /\ redo_document(TokenOf(r))
  \/ \E r \in Requests("upload", {11}, {1}, {<<f>> : f \in Files}) :
       /\ Admit(r, MaxRequests)
       /\ upload_document_begin(TokenOf(r), r.args[1], MaxUploads)
  \/ \E i \in 1..Len(uploads) : upload_document_finish(i)
  \/ \E p \in Pages : nsteps + Len(uploads) < MaxRequests /\ init_document(p)
  \/ \E p \in Pages : render_document(p)

Spec == Init /\ [][Next]_vars

\* ------------------------------------------------- the request protocol
MutatingOps ==
  {"update", "update_node", "update_range", "insert_text", "delete_range",
   "delete_backward", "delete_forward", "insert_break", "undo", "redo"}

\* The step is the arrival of a request at a mutating endpoint (the second half
\* of an upload is not an arrival: its request arrived when it was suspended).
Arrival ==
  /\ req' # req \/ resp' # resp \/ outcome' # outcome
  /\ \/ req'.op \in MutatingOps
     \/ req'.op = "upload" /\ outcome' \in {"cached", "conflict", "suspended"}

\* The step handled a request that passed validation at a listed endpoint.
Validated == req'.op \in MutatingOps /\ outcome' \in {"applied", "not_applied"}

\* The step handled a request that passed validation at a listed endpoint and
\* whose handler raised: the server answered 500.
Raised == req'.op \in MutatingOps /\ outcome' = "raised"

\* The request of the step misses the response cache.
Miss == get_cached_response(applied_ops, RequestKey(req')) = None

\* C1: a request identical to one that was applied (same endpoint, body,
\* docId, baseVersion, clientOpId and page) gets the payload of the first
\* response, and the version does not advance.
C1_IdempotentReplay ==
  [][(/\ RequestKey(req') \in DOMAIN first_resp
      /\ first_resp[RequestKey(req')].req = req'
      /\ Arrival)
     => /\ resp'.body = first_resp[RequestKey(req')].payload
        /\ version' = version]_vars

\* C3: a request that misses the cache is answered doc_conflict when its docId
\* is not the server's, version_conflict when the docId matches and the
\* baseVersion is not the server's version; the payload carries the server's
\* docId and version, and the document, version, docId, both stacks and the
\* response cache stay as they were.
C3_ConflictRejection ==
  [][(Arrival /\ Miss /\ (req'.doc_id # doc_id \/ req'.base_version # version))
     => /\ resp'.status = 409
        /\ resp'.body.error = Some(IF req'.doc_id # doc_id THEN "doc_conflict"
                                   ELSE "version_conflict")
        /\ resp'.body.docId = doc_id
        /\ resp'.body.version = version
        /\ UNCHANGED state_vars]_vars

\* A retransmission under another page missed the cache and was rejected for
\* its version.
C3_Witness ==
  /\ outcome = "conflict"
  /\ resp.body.error = Some("version_conflict")
  /\ req.doc_id = doc_id
  /\ req.base_version < version
  /\ resp.body.version = version

\* C4: the edit of one client operation (one endpoint and body under one
\* docId, baseVersion and clientOpId), however often and under whatever page
\* its request is sent, is applied at most once.
C4_AtMostOnce == \A k \in DOMAIN applied_n : applied_n[k] <= 1

\* C5: an upload that replaces the document does so on the document and
\* version it validated: no other request took effect between its validation
\* and its load.
C5_UploadAtomic ==
  [][(req'.op = "upload" /\ outcome' = "applied" /\ uploads' # uploads)
     => (doc_id = req'.doc_id /\ version = req'.base_version)]_vars

\* ----------------------------------------------------- concurrent uploads
\* upload_document calls suspended at once when uploads race.
MaxRacingUploads == 2
\* Requests a behaviour of SpecUpload accepts or suspends.
MaxRaceRequests == 3

NextUpload ==
  \/ \E r \in Requests("upload", {11, 12}, Pages, {<<Some(UploadedDoc)>>}) :
       /\ Admit(r, MaxRaceRequests)
       /\ upload_document_begin(TokenOf(r), r.args[1], MaxRacingUploads)
  \/ \E i \in 1..Len(uploads) : upload_document_finish(i)
  \/ \E r \in Requests("insert_text", {1}, {1}, {<<Addr(1), 1, <<"x">>, None>>}) :
       /\ Admit(r, MaxRaceRequests)
       /\ insert_text_endpoint(TokenOf(r), r.args[1], r.args[2], r.args[3], r.args[4])
  \/ \E p \in Pages : render_document(p)

SpecUpload == Init /\ [][NextUpload]_vars

\* --------------------------------------------------- typing, undo and redo
\* Requests a behaviour of SpecTyping accepts.
MaxTypingSteps == 3
\* How far the clock moves between two requests, in tenths of a time unit.
TickSteps == {12, 13}

\* A client that numbers its operations: the request carries the identity and
\* version the server holds and a client operation id not used before.
Fresh(op, args) ==
  {Request(op, Token(doc_id, version, OpId(100 + nsteps), 1), a) : a \in args}

NextTyping ==
  \/ \E r \in Fresh("insert_text", {<<Addr(1), 1, <<"x">>, None>>}) :
       /\ Admit(r, MaxTypingSteps)
       /\ insert_text_endpoint(TokenOf(r), r.args[1], r.args[2], r.args[3], r.args[4])
  \/ \E r \in Fresh("delete_backward", {<<Addr(2), End(2), 1>>, <<Addr(2), End(2), 2>>}) :
       /\ Admit(r, MaxTypingSteps)
       /\ delete_backward_endpoint(TokenOf(r), r.args[1], r.args[2], r.args[3])
  \/ \E r \in Fresh("update", {<<Bold>>}) :
       /\ Admit(r, MaxTypingSteps)
       /\ update_document(TokenOf(r), r.args[1])
  \/ \E r \in Fresh("undo", {<<>>}) :
       Admit(r, MaxTypingSteps) /\ undo_document(TokenOf(r))
  \/ \E r \in Fresh("redo", {<<>>}) :
       Admit(r, MaxTypingSteps) /\ redo_document(TokenOf(r))
  \/ \E delta \in TickSteps : Tick(delta)

SpecTyping == Init /\ [][NextTyping]_vars

\* ---------------------------------------------------------- render failures
\* Requests a behaviour of SpecRender accepts or suspends.
MaxRenderSteps == 2

\* A request of the server's identity and version.
Sent(op, op_id, args) ==
  {Request(op, Token(doc_id, version, OpId(op_id), 1), a) : a \in args}

\* Spec on one page, with an engine whose exports fail and recover
\* between the requests: every endpoint with requests of the server's identity
\* and version, and insertText, updateDocumentStyle, updateRangeStyle and upload
\* with stale ones and retransmissions too.
NextRender ==
  \/ \E r \in Requests("insert_text", {1}, {1}, {<<Addr(1), 1, <<"x">>, None>>}) :
       /\ Admit(r, MaxRenderSteps)
       /\ insert_text_endpoint(TokenOf(r), r.args[1], r.args[2], r.args[3], r.args[4])
  \/ \E r \in Sent("delete_range", 2, {<<Addr(1), 1, Addr(2), 1>>}) :
       /\ Admit(r, MaxRenderSteps)
       /\ delete_range_endpoint(TokenOf(r), r.args[1], r.args[2], r.args[3], r.args[4])
  \/ \E r \in Sent("delete_backward", 3, {<<Addr(2), 0, 1>>}) :
       /\ Admit(r, MaxRenderSteps)
       /\ delete_backward_endpoint(TokenOf(r), r.args[1], r.args[2], r.args[3])
  \/ \E r \in Sent("delete_forward", 4, {<<Addr(1), 1, 1>>}) :
       /\ Admit(r, MaxRenderSteps)
       /\ delete_forward_endpoint(TokenOf(r), r.args[1], r.args[2], r.args[3])
  \/ \E r \in Sent("insert_break", 5, {<<Addr(1), 1>>}) :
       /\ Admit(r, MaxRenderSteps)
       /\ insert_break_endpoint(TokenOf(r), r.args[1], r.args[2])
  \/ \E r \in Requests("update", {6}, {1}, {<<Bold>>}) :
       /\ Admit(r, MaxRenderSteps)
       /\ update_document(TokenOf(r), r.args[1])
  \/ \E r \in Sent("update_node", 7, {<<Addr(1), 0, 1, Red>>}) :
       /\ Admit(r, MaxRenderSteps)
       /\ update_node(TokenOf(r), r.args[1], r.args[2], r.args[3], r.args[4])
  \/ \E r \in Requests("update_range", {8}, {1},
                       {<<Addr(1), 1, Addr(2), 1, Bold>>, <<"Foo", 1, Addr(2), 1, Bold>>}) :
       /\ Admit(r, MaxRenderSteps)
       /\ update_range(TokenOf(r), r.args[1], r.args[2], r.args[3], r.args[4], r.args[5])
  \/ \E r \in Sent("undo", 9, {<<>>}) :
       Admit(r, MaxRenderSteps) /\ undo_document(TokenOf(r))
  \/ \E r \in Sent("redo", 10, {<<>>}) :
       Admit(r, MaxRenderSteps) /\ redo_document(TokenOf(r))
  \/ \E r \in Requests("upload", {11}, {1}, {<<f>> : f \in Files}) :
       /\ Admit(r, MaxRenderSteps)
       /\ upload_document_begin(TokenOf(r), r.args[1], MaxUploads)
  \/ \E i \in 1..Len(uploads) : upload_document_finish(i)
  \/ nsteps + Len(uploads) < MaxRenderSteps /\ init_document(1)
  \/ render_document(1)
  \/ \E page_works \in BOOLEAN, paragraph_works \in BOOLEAN :
       nsteps + Len(uploads) < MaxRenderSteps /\ Engine(page_works, paragraph_works)

SpecRender == Init /\ [][NextRender]_vars

\* The step handled a request that passed validation at a listed endpoint:
\* the server answered it (200), its edit method raised (500) or the render
\* of its response failed (500).
HandledAfterValidation ==
  /\ req'.op \in MutatingOps
  /\ nsteps' = nsteps + 1
  /\ outcome' \in {"applied", "not_applied", "raised", "render_failed"}

\* The step rejected a request at a listed endpoint with a conflict, the
\* render of the conflict response having worked or failed.
RejectedWithConflict ==
  /\ Arrival
  /\ req'.op \in MutatingOps
  /\ outcome' \in {"conflict", "conflict_render_failed"}

\* C2: every request that passes validation at a mutating endpoint advances
\* the version by exactly one, whatever its count, whether or not its
\* addresses resolve or the history stacks are empty, and a request rejected
\* with a conflict leaves the version unchanged.
C2_VersionPlusOne ==
  [][/\ HandledAfterValidation => version' = version + 1
     /\ RejectedWithConflict => version' = version]_vars

\* C6: after n <= 50 accepted mutating requests M1..Mn and then n undo
\* requests the document is the one that preceded M1, and after n redo
\* requests more it is the one that followed Mn.
C6_UndoRedoRoundTrip ==
  LET n == Len(trail.past)
  IN /\ (n >= 1 /\ trail.undos = n /\ trail.redos = 0) => doc = trail.past[1].doc
     /\ (n >= 1 /\ trail.undos = n /\ trail.redos = n) => doc = trail.post

\* --------------------------------------------------------- typing bursts
\* Requests a behaviour of SpecBurst accepts.
MaxBurstSteps == 5

\* The client types, restyles the document, undoes and redoes, in any order,
\* while the clock moves.
NextBurst ==
  \/ \E r \in Fresh("insert_text", {<<Addr(1), 1, <<"x">>, None>>}) :
       /\ Admit(r, MaxBurstSteps)
       /\ insert_text_endpoint(TokenOf(r), r.args[1], r.args[2], r.args[3], r.args[4])
  \/ \E r \in Fresh("update", {<<Bold>>}) :
       /\ Admit(r, MaxBurstSteps)
       /\ update_document(TokenOf(r), r.args[1])
  \/ \E r \in Fresh("undo", {<<>>}) :
       Admit(r, MaxBurstSteps) /\ undo_document(TokenOf(r))
  \/ \E r \in Fresh("redo", {<<>>}) :
       Admit(r, MaxBurstSteps) /\ redo_document(TokenOf(r))
  \/ \E delta \in TickSteps : Tick(delta)

SpecBurst == Init /\ [][NextBurst]_vars

\* The last two accepted requests were insertText calls, the second less than
\* the coalescing window after the first.
InsertPair(past) ==
  /\ Len(past) >= 2
  /\ past[Len(past)].op = "insert_text"
  /\ past[Len(past) - 1].op = "insert_text"
  /\ past[Len(past)].time - past[Len(past) - 1].time < CoalesceWindow

\* The step is an insertText call that follows an insertText call directly
\* (no accepted request of any endpoint, undo and redo included, between
\* them) less than the coalescing window later.
SecondInsert ==
  /\ req'.op = "insert_text" /\ outcome' = "applied"
  /\ trail.undos = 0 /\ trail.redos = 0
  /\ trail'.undos = 0 /\ InsertPair(trail'.past)

\* The step is an undo request that follows such a pair directly.
UndoAfterInsertPair ==
  /\ req'.op = "undo" /\ Validated
  /\ trail.undos = 0 /\ trail.redos = 0
  /\ InsertPair(trail.past)

OneIf(b) == IF b THEN 1 ELSE 0

\* C7 as stated: the two calls add one entry to the undo stack in total, and
\* an undo after them restores the document from before the first of the two.
C7_OneEntryPerPair ==
  [][/\ SecondInsert =>
          OneIf(trail'.past[Len(trail'.past) - 1].pushed)
            + OneIf(trail'.past[Len(trail'.past)].pushed) = 1
     /\ UndoAfterInsertPair => doc' = trail.past[Len(trail.past) - 1].doc]_vars

\* C7: of two insertText requests accepted one directly after the other (no
\* accepted request, undo and redo included, between them) less than the
\* coalescing window apart, the second adds no entry to the undo stack (the
\* pair adds one entry when the first pushed a snapshot, none when the first
\* was itself coalesced), and when the first pushed a snapshot an undo
\* accepted directly after the second restores the document from before the
\* first of the two.
C7_Coalescing ==
  [][/\ SecondInsert => undo_stack' = undo_stack
     /\ (UndoAfterInsertPair /\ trail.past[Len(trail.past) - 1].pushed)
          => (outcome' = "applied" /\ doc' = trail.past[Len(trail.past) - 1].doc)]_vars

\* Two inserts less than the window apart, the clock having moved between
\* them, then an undo: one entry was pushed and the undo restored the document
\* from before the first insert.
C7_Witness ==
  /\ req.op = "undo" /\ outcome = "applied"
  /\ trail.undos = 1
  /\ InsertPair(trail.past)
  /\ trail.past[Len(trail.past)].time > trail.past[Len(trail.past) - 1].time
  /\ trail.past[Len(trail.past) - 1].pushed
  /\ doc = trail.past[Len(trail.past) - 1].doc
  /\ undo_stack = <<>>

\* ------------------------------------------------------- a long history
\* Requests a behaviour of SpecHistory accepts.
MaxHistorySteps == 53

\* The client breaks the first paragraph again and again; once the history is
\* full it also deletes, undoes, redoes and uploads.
NextHistory ==
  \/ \E r \in Fresh("insert_break", {<<Addr(1), 1>>}) :
       /\ Admit(r, MaxHistorySteps)
       /\ insert_break_endpoint(TokenOf(r), r.args[1], r.args[2])
  \/ \E r \in Fresh("delete_backward", {<<Addr(1), 1, 2>>}) :
       /\ nsteps >= max_history
       /\ Admit(r, MaxHistorySteps)
       /\ delete_backward_endpoint(TokenOf(r), r.args[1], r.args[2], r.args[3])
  \/ \E r \in Fresh("undo", {<<>>}) :
       nsteps >= max_history /\ Admit(r, MaxHistorySteps) /\ undo_document(TokenOf(r))
  \/ \E r \in Fresh("redo", {<<>>}) :
       nsteps >= max_history /\ Admit(r, MaxHistorySteps) /\ redo_document(TokenOf(r))
  \/ \E r \in Fresh("upload", {<<Some(UploadedDoc)>>}) :
       /\ nsteps >= max_history
       /\ Admit(r, MaxHistorySteps)
       /\ upload_document_begin(TokenOf(r), r.args[1], MaxUploads)
  \/ \E i \in 1..Len(uploads) : upload_document_finish(i)

SpecHistory == Init /\ [][NextHistory]_vars

\* Snapshots the request of the step pushes when every unit of it pushes one.
PushesOf(r) ==
  IF r.op \in {"delete_backward", "delete_forward"} THEN LoopCount(r.args[3]) ELSE 1

\* `new` is `old` after p pushes, the oldest entries dropped beyond capacity.
PushedOnto(old, new, p) ==
  /\ Len(new) >= p
  /\ new = LastN(old \o LastN(new, p), max_history)

\* C8: neither stack ever holds more than 50 snapshots, and a step that pushes
\* (record_change, redo and upload onto the undo stack, undo onto the redo
\* stack) leaves the stack as it was with the new snapshots at the end and,
\* beyond 50, the oldest entries dropped.
C8_BoundedHistory ==
  [][/\ Len(undo_stack') <= max_history
     /\ Len(redo_stack') <= max_history
     /\ (undo_stack' # undo_stack /\ req'.op \notin {"undo", "init", "none"})
          => PushedOnto(undo_stack, undo_stack', PushesOf(req'))
     /\ (req'.op = "undo" /\ outcome' = "applied")
          => PushedOnto(redo_stack, redo_stack', 1)]_vars

\* The undo stack is full, a further edit was accepted, and the snapshot of the
\* first document is no longer the oldest entry.
C8_Witness ==
  /\ Len(undo_stack) = max_history
  /\ nsteps > max_history
  /\ req.op = "insert_break" /\ outcome = "applied"
  /\ undo_stack[1] # inject_bookmarks(DefaultDoc, 2)

\* ------------------------------------------------------------ span edits
\* Requests a behaviour of SpecEdit accepts.
MaxEditSteps == 2

NextEdit ==
  \/ \E k \in {1, 2} :
     \E r \in Fresh("insert_text", {<<Addr(k), off, <<"x">>, st>> :
                                      off \in {0, 1, End(k)}, st \in {None, Some(Bold)}}
                                    \cup {<<"Foo", off, <<"x">>, None>> : off \in {0, 1, 2}}) :
       /\ Admit(r, MaxEditSteps)
       /\ insert_text_endpoint(TokenOf(r), r.args[1], r.args[2], r.args[3], r.args[4])
  \/ \E r \in Fresh("insert_break", {<<Addr(1), off>> : off \in {0, 1, End(1)}}
                                     \cup {<<"Foo", 1>>}) :
       /\ Admit(r, MaxEditSteps)
       /\ insert_break_endpoint(TokenOf(r), r.args[1], r.args[2])
  \/ \E r \in Fresh("update_node", {<<Addr(1), 0, 1, Red>>, <<Addr(1), 1, 2, Red>>,
                                    <<Addr(1), 1, End(1), Red>>,
                                    <<Addr(1), 0, End(1), Red>>}) :
       /\ Admit(r, MaxEditSteps)
       /\ update_node(TokenOf(r), r.args[1], r.args[2], r.args[3], r.args[4])
  \/ \E r \in Fresh("update_range", {<<Addr(1), 1, Addr(2), 1, Bold>>,
                                     <<Addr(2), 1, Addr(1), 1, Bold>>,
                                     <<Addr(1), 0, Addr(3), 1, Centered>>,
                                     <<"Foo", 1, Addr(2), 1, Bold>>,
                                     <<"Foo", 0, Addr(2), 1, Bold>>,
                                     <<Addr(2), 1, "Foo", 0, Bold>>}) :
       /\ Admit(r, MaxEditSteps)
       /\ update_range(TokenOf(r), r.args[1], r.args[2], r.args[3], r.args[4], r.args[5])
  \/ \E r \in Fresh("delete_range", {<<Addr(1), 1, Addr(2), 1>>,
                                     <<"Foo", 1, Addr(2), 1>>}) :
       /\ Admit(r, MaxEditSteps)
       /\ delete_range_endpoint(TokenOf(r), r.args[1], r.args[2], r.args[3], r.args[4])
  \/ \E r \in Fresh("delete_backward", {<<Addr(2), 0, 1>>}) :
       /\ Admit(r, MaxEditSteps)
       /\ delete_backward_endpoint(TokenOf(r), r.args[1], r.args[2], r.args[3])
  \/ \E r \in Fresh("delete_forward", {<<Addr(1), End(1), 1>>}) :
       /\ Admit(r, MaxEditSteps)
       /\ delete_forward_endpoint(TokenOf(r), r.args[1], r.args[2], r.args[3])
  \/ \E r \in Fresh("undo", {<<>>}) :
       Admit(r, MaxEditSteps) /\ undo_document(TokenOf(r))
  \/ \E r \in Fresh("redo", {<<>>}) :
       Admit(r, MaxEditSteps) /\ redo_document(TokenOf(r))
  \/ \E r \in Fresh("upload", {<<Some(UploadedDoc)>>}) :
       /\ Admit(r, MaxEditSteps)
       /\ upload_document_begin(TokenOf(r), r.args[1], MaxUploads)
  \/ \E i \in 1..Len(uploads) : upload_document_finish(i)
  \/ nsteps + Len(uploads) < MaxEditSteps /\ init_document(1)

SpecEdit == Init /\ [][NextEdit]_vars

\* No two runs of d carry the same address: no two bookmarks of d have the
\* same name, so that a name stands for one run at most.
UniqueAddresses(d) ==
  LET starts(nodes) == {k \in 1..Len(nodes) : nodes[k].kind = "start"}
      distinct(nodes) ==
        \A j \in starts(nodes), k \in starts(nodes) :
          nodes[j].name = nodes[k].name => j = k
  IN distinct(Nodes(d))

\* The addresses the step mints: after a load the names it wraps the runs in,
\* the ones an edit adds to the document, none for undo and redo (they
\* restore runs).
Minted ==
  IF req'.op \in {"init", "upload"} THEN
    IF doc_id' # doc_id /\ doc' # doc
    THEN {RunAt(doc', pos).id : pos \in Positions(doc')} ELSE {}
  ELSE IF req'.op \in {"undo", "redo"} THEN {}
  ELSE Addresses(doc') \ Addresses(doc)

\* C9: no two runs carry the same address, and every address a load or a
\* split mints differs from every address that was ever in the document.
C9_AddressUniqueness ==
  [][UniqueAddresses(doc) /\ UniqueAddresses(doc') /\ Minted \cap seen = {}]_vars

\* A second load and a split both minted addresses.
C9_Witness ==
  /\ req.op = "insert_text" /\ outcome = "applied"
  /\ NumRuns(doc) = NumRuns(DefaultDoc) + 2
  /\ Cardinality(seen) = 2 * NumRuns(DefaultDoc) + 2

\* The run that carries address id in d, and how many runs carry it.
Carrier(d, id) == RunAt(d, run_in_bookmark(d, id))
Carriers(d, id) == Cardinality({p \in Positions(d) : RunAt(d, p).id = id})

\* In the document after the step exactly one run carries id and its text is
\* text.
Carried(id, text) == Carriers(doc', id) = 1 /\ Carrier(doc', id).text = text

\* The step produced k runs besides the carriers, each under an address that
\* was never in the document, and kept the address of every run other than
\* those the addresses `ids` of the request resolve to.
OthersNew(k, ids) ==
  /\ (Addresses(doc') \ Addresses(doc)) \cap seen = {}
  /\ Cardinality(Addresses(doc') \ Addresses(doc)) = k
  /\ NumRuns(doc') = NumRuns(doc) + k
  /\ \A a \in Addresses(doc) :
       (\A id \in ids : run_in_bookmark(doc, a) # run_in_bookmark(doc, id))
         => a \in Addresses(doc')

\* insertText into a non-empty run: the inserted segment keeps the address.
InsertCarriesOver ==
  LET id == req'.args[1]
      text == Carrier(doc, id).text
      off == Clamp(0, req'.args[2], Len(text))
  IN (/\ req'.op = "insert_text" /\ outcome' = "applied"
      /\ run_in_bookmark(doc, id) # None
      /\ Len(text) > 0 /\ Len(req'.args[3]) > 0)
     => /\ Carried(id, req'.args[3])
        /\ OthersNew(OneIf(off > 0) + OneIf(off < Len(text)), {id})

\* insertBreak: the post segment keeps the address.
BreakCarriesOver ==
  LET id == req'.args[1]
      text == Carrier(doc, id).text
      off == Clamp(0, req'.args[2], Len(text))
  IN (/\ req'.op = "insert_break" /\ outcome' = "applied"
      /\ run_in_bookmark(doc, id) # None)
     => /\ Carried(id, Drop(text, off))
        /\ OthersNew(OneIf(off > 0), {id})

\* updateNodeStyle over a sub-span of the run: the mid segment keeps the
\* address.
NodeStyleCarriesOver ==
  LET id == req'.args[1]
      text == Carrier(doc, id).text
      so == Max2(0, req'.args[2])
      eo == Min2(req'.args[3], Len(text))
  IN (/\ req'.op = "update_node" /\ outcome' = "applied"
      /\ run_in_bookmark(doc, id) # None
      /\ so < eo /\ (so > 0 \/ eo < Len(text)))
     => /\ Carried(id, SubSeq(text, so + 1, eo))
        /\ OthersNew(OneIf(so > 0) + OneIf(eo < Len(text)), {id})

\* updateRangeStyle from inside one run to inside another: the styled part of
\* each split run (its mid segment) keeps the run's address.
RangeStyleCarriesOver ==
  LET a == req'.args[1]
      b == req'.args[3]
      ta == Carrier(doc, a).text
      tb == Carrier(doc, b).text
      so == Clamp(0, req'.args[2], Len(ta))
      eo == Clamp(0, req'.args[4], Len(tb))
      split_start == 0 < so /\ so < Len(ta)
      split_end == 0 < eo /\ eo < Len(tb)
  IN (/\ req'.op = "update_range" /\ outcome' = "applied"
      /\ run_in_bookmark(doc, a) # None /\ run_in_bookmark(doc, b) # None
      /\ a # b)
     => /\ split_start => Carried(a, Drop(ta, so))
        /\ split_end => Carried(b, Take(tb, eo))
        /\ OthersNew(OneIf(split_start) + OneIf(split_end), {a, b})

\* C10: after a step that splits a run, exactly one produced segment carries
\* the run's address (the mid segment for a range or node style, the inserted
\* segment for insertText, the post segment for insertBreak) and every other
\* produced segment carries an address that was never in the document.
C10_AddressCarryOver ==
  [][/\ InsertCarriesOver
     /\ BreakCarriesOver
     /\ NodeStyleCarriesOver
     /\ RangeStyleCarriesOver]_vars

\* A node style over the second character of the first line: the styled
\* character carries the run's address and the runs on both sides are new.
C10_Witness ==
  /\ req.op = "update_node" /\ outcome = "applied"
  /\ req.args[2] = 1 /\ req.args[3] = 2
  /\ Carriers(doc, req.args[1]) = 1
  /\ Carrier(doc, req.args[1]).text = SubSeq(DefaultLine1, 2, 2)
  /\ Carrier(doc, req.args[1]).font.color = <<255, 0, 0>>
  /\ NumRuns(doc) = NumRuns(DefaultDoc) + 2

\* ---------------------------------------------------------- range styles
\* Requests a behaviour of SpecStyle accepts.
MaxStyleSteps == 2
\* Offsets a style request carries for the k-th run: below 0, inside the
\* text, at its end and beyond.
StyleOffsets(k) == {-1, 0, 1, 2, End(k), End(k) + 1}

\* The client styles spans: inside one run, across runs, across paragraphs and
\* with the end before the start.
NextStyle ==
  \/ \E r \in Fresh("update_node", {<<Addr(1), so, eo, Red>> :
                                      so \in StyleOffsets(1), eo \in StyleOffsets(1)}) :
       /\ Admit(r, MaxStyleSteps)
       /\ update_node(TokenOf(r), r.args[1], r.args[2], r.args[3], r.args[4])
  \/ \E ab \in {<<1, 2>>, <<2, 1>>, <<1, 3>>} :
     \E r \in Fresh("update_range", {<<Addr(ab[1]), so, Addr(ab[2]), eo, Bold>> :
                                       so \in StyleOffsets(ab[1]), eo \in StyleOffsets(ab[2])}) :
       /\ Admit(r, MaxStyleSteps)
       /\ update_range(TokenOf(r), r.args[1], r.args[2], r.args[3], r.args[4], r.args[5])

SpecStyle == Init /\ [][NextStyle]_vars

\* The texts of the segments, in order, as one text.
SegmentsText(segs) == ConcatSeqs([i \in 1..Len(segs) |-> segs[i].text], 1, Len(segs))

\* Splitting any run of d at any (a, b) with 0 <= a <= b <= |T| gives segments
\* that read T.
SplitsPreserveText(d) ==
  \A pos \in Positions(d) :
    \A a \in 0..Len(RunAt(d, pos).text), b \in 0..Len(RunAt(d, pos).text) :
      a <= b =>
        SegmentsText(split_run_keep_mid_id(RunAt(d, pos), RunAt(d, pos).id, a, b,
                                           Some(Red), uuid).segs)
          = RunAt(d, pos).text

\* C11: the segments of a split at (a, b), 0 <= a <= b <= |T|, concatenate to
\* T (for every run of the loaded document and of every document one style
\* request away from it), and an accepted updateNodeStyle or updateRangeStyle
\* request, whatever its offsets, leaves the concatenation of all run texts
\* as it was.
C11_SplitTextPreservation ==
  [][/\ nsteps = 0 => (SplitsPreserveText(doc) /\ SplitsPreserveText(doc'))
     /\ (req'.op \in {"update_node", "update_range"} /\ Validated)
          => DocText(doc') = DocText(doc)]_vars

\* A range style from inside the first run to inside the second split both:
\* two more runs, the same text.
C11_Witness ==
  /\ req.op = "update_range" /\ outcome = "applied"
  /\ req.args[2] = 1 /\ req.args[4] = 1
  /\ NumRuns(doc) = NumRuns(DefaultDoc) + 2
  /\ DocText(doc) = DocText(DefaultDoc)

\* -------------------------------------------------------- insert, then style
\* Requests a behaviour of SpecInsertStyle accepts.
MaxInsertStyleSteps == 3
\* Offsets an insertText request carries for the k-th run: below 0, inside and
\* beyond the text.
InsertOffsets(k) == {-1, 0, 1, End(k) + 1}

\* The range style a client sends after an insertText: over the inserted text.
StyleOfInserted ==
  IF req.op = "insert_text"
  THEN <<req.args[1], 0, req.args[1], Len(req.args[3]), Red>>
  ELSE <<Addr(1), 0, Addr(1), 1, Red>>

\* The client breaks a paragraph (at the end of a run this leaves an empty run
\* under the address), inserts text and styles the text it inserted.
NextInsertStyle ==
  \/ \E r \in Fresh("insert_break", {<<Addr(1), 0>>, <<Addr(1), End(1)>>}) :
       /\ Admit(r, MaxInsertStyleSteps)
       /\ insert_break_endpoint(TokenOf(r), r.args[1], r.args[2])
  \/ \E k \in {1, 2} :
     \E r \in Fresh("insert_text", {<<Addr(k), off, x, None>> :
                                      off \in InsertOffsets(k),
                                      x \in {<<"x">>, <<"x", "y">>}}) :
       /\ Admit(r, MaxInsertStyleSteps)
       /\ insert_text_endpoint(TokenOf(r), r.args[1], r.args[2], r.args[3], r.args[4])
  \/ \E r \in Fresh("update_range", {StyleOfInserted}) :
       /\ Admit(r, MaxInsertStyleSteps)
       /\ update_range(TokenOf(r), r.args[1], r.args[2], r.args[3], r.args[4], r.args[5])

SpecInsertStyle == Init /\ [][NextInsertStyle]_vars

\* The step is an accepted insertText of a non-empty text at an address that
\* resolves.
InsertAtLiveRun ==
  /\ req'.op = "insert_text" /\ outcome' = "applied"
  /\ Len(req'.args[3]) > 0
  /\ run_in_bookmark(doc, req'.args[1]) # None

\* The step is an accepted updateRangeStyle(A, 0, A, |X|) that follows an
\* accepted insertText of the non-empty text X at the live address A.
StyleAfterInsert ==
  /\ req.op = "insert_text" /\ outcome = "applied"
  /\ Len(req.args[3]) > 0
  /\ run_in_bookmark(doc, req.args[1]) # None
  /\ req'.op = "update_range" /\ outcome' = "applied"
  /\ req'.args[1] = req.args[1] /\ req'.args[3] = req.args[1]
  /\ req'.args[2] = 0 /\ req'.args[4] = Len(req.args[3])

\* C12: after an accepted insertText of a non-empty text X at a live address A
\* (any offset, any prior text), exactly one run carries A and its text is X;
\* a following updateRangeStyle(A, 0, A, |X|) restyles that run in place: the
\* document is the one before with the style applied to the font of that run,
\* no run is added and no address is minted.
C12_InsertThenStyle ==
  [][/\ InsertAtLiveRun => Carried(req'.args[1], req'.args[3])
     /\ StyleAfterInsert =>
          /\ doc' = ReplaceRun(doc, run_in_bookmark(doc, req.args[1]),
                               <<restyled(Carrier(doc, req.args[1]), req'.args[5])>>)
          /\ Carried(req.args[1], req.args[3])
          /\ NumRuns(doc') = NumRuns(doc)
          /\ Addresses(doc') = Addresses(doc)
          /\ uuid' = uuid]_vars

\* Two characters were inserted in the middle of the first run and then
\* styled: the run under the address reads the inserted text, in red, between
\* the two halves of the old run.
C12_Witness ==
  /\ req.op = "update_range" /\ outcome = "applied"
  /\ req.args[4] = 2
  /\ Carriers(doc, req.args[1]) = 1
  /\ Carrier(doc, req.args[1]).text = <<"x", "y">>
  /\ Carrier(doc, req.args[1]).font.color = <<255, 0, 0>>
  /\ NumRuns(doc) = NumRuns(DefaultDoc) + 2
  /\ DocText(doc) = Take(DefaultLine1, 1) \o <<"x", "y">> \o Drop(DefaultLine1, 1)
                      \o DefaultLine2 \o DefaultLine3

\* ------------------------------------------------------------------ render
\* C13: a render request leaves docId, version, the document (content and
\* address bindings), both history stacks and the response cache as they were,
\* and reports the docId and version that the response of the most recent
\* accepted mutation (or load) reported.
C13_RenderReadOnly ==
  [][(req'.op = "render" /\ outcome' = "read")
     => /\ UNCHANGED <<state_vars, uuid, seen>>
        /\ IsSome(trail.reported)
             => /\ resp'.body.docId = Val(trail.reported).docId
                /\ resp'.body.version = Val(trail.reported).version]_vars

\* ------------------------------------------------------- paragraph merges
\* Requests a behaviour of SpecMerge accepts.
MaxMergeSteps == 3

\* The client breaks paragraphs and inserts text (so that paragraphs hold
\* several runs, empty runs or none) and deletes backward at and after the
\* start of a run, one or two characters at a time.
NextMerge ==
  \/ \E k \in {1, 2} :
     \E r \in Fresh("insert_break", {<<Addr(k), off>> : off \in {0, 1, End(k)}}) :
       /\ Admit(r, MaxMergeSteps)
       /\ insert_break_endpoint(TokenOf(r), r.args[1], r.args[2])
  \/ \E r \in Fresh("insert_text", {<<Addr(k), 1, <<"x">>, None>> : k \in {1, 2}}) :
       /\ Admit(r, MaxMergeSteps)
       /\ insert_text_endpoint(TokenOf(r), r.args[1], r.args[2], r.args[3], r.args[4])
  \/ \E r \in Fresh("delete_backward", {<<Addr(k), off, count>> :
                                          k \in 1..4, off \in {0, 1}, count \in {1, 2}}) :
       /\ Admit(r, MaxMergeSteps)
       /\ delete_backward_endpoint(TokenOf(r), r.args[1], r.args[2], r.args[3])

SpecMerge == Init /\ [][NextMerge]_vars

\* Requests a behaviour of SpecPatch accepts.
MaxPatchSteps == 3

\* Breaks, inserts and backward deletes that merge, with an engine whose
\* export of a paragraph fails and recovers between the requests.
NextPatch ==
  \/ \E r \in Fresh("insert_break", {<<Addr(k), off>> : k \in {1, 2}, off \in {0, 1}}) :
       /\ Admit(r, MaxPatchSteps)
       /\ insert_break_endpoint(TokenOf(r), r.args[1], r.args[2])
  \/ \E r \in Fresh("insert_text", {<<Addr(k), 1, <<"x">>, None>> : k \in {1, 2}}) :
       /\ Admit(r, MaxPatchSteps)
       /\ insert_text_endpoint(TokenOf(r), r.args[1], r.args[2], r.args[3], r.args[4])
  \/ \E r \in Fresh("delete_backward", {<<Addr(k), off, 1>> : k \in 1..4, off \in {0, 1}}) :
       /\ Admit(r, MaxPatchSteps)
       /\ delete_backward_endpoint(TokenOf(r), r.args[1], r.args[2], r.args[3])
  \/ \E paragraph_works \in BOOLEAN :
       nsteps < MaxPatchSteps /\ Engine(TRUE, paragraph_works)

SpecPatch == Init /\ [][NextPatch]_vars

\* The step is an accepted deleteBackward of one character at offset 0 of the
\* first run of a paragraph whose preceding paragraph ends with a run.
BackwardAtParagraphStart ==
  /\ req'.op = "delete_backward" /\ outcome' = "applied"
  /\ req'.args[2] = 0 /\ LoopCount(req'.args[3]) = 1
  /\ run_in_bookmark(doc, req'.args[1]) # None
  /\ run_in_bookmark(doc, req'.args[1])[2] = 1
  /\ run_in_bookmark(doc, req'.args[1])[1] > 1
  /\ Len(doc[run_in_bookmark(doc, req'.args[1])[1] - 1].runs) > 0

\* The runs of a paragraph without the bookmark nodes between them: the
\* address, text and font of each.
TextRuns(runs) ==
  [i \in 1..Len(runs) |-> [id |-> runs[i].id, text |-> runs[i].text, font |-> runs[i].font]]

\* C14: a deleteBackward at offset 0 of the first run of a paragraph P2 whose
\* preceding paragraph P1 ends with a run R1 leaves one paragraph less, the
\* same text, P1 holding its runs followed by those of P2 in their order, every
\* other paragraph as it was, and returns the caret (address of R1, length of
\* the text of R1): an address that resolves to R1 in the document after the
\* merge.
C14_BackwardMerge ==
  [][BackwardAtParagraphStart =>
       LET p2 == run_in_bookmark(doc, req'.args[1])[1]
           p1 == p2 - 1
           r1 == doc[p1].runs[Len(doc[p1].runs)]
       IN /\ Len(doc') = Len(doc) - 1
          /\ DocText(doc') = DocText(doc)
          /\ TextRuns(doc'[p1].runs) = TextRuns(doc[p1].runs) \o TextRuns(doc[p2].runs)
          /\ \A q \in 1..(p1 - 1) : doc'[q] = doc[q]
          /\ \A q \in (p2 + 1)..Len(doc) : doc'[q - 1] = doc[q]
          /\ resp'.body.selection # None
          /\ Val(resp'.body.selection).endNodeId = Val(resp'.body.selection).startNodeId
          /\ Val(resp'.body.selection).endOffset = Val(resp'.body.selection).startOffset
          /\ run_in_bookmark(doc', Val(resp'.body.selection).startNodeId)
               = <<p1, Len(doc[p1].runs)>>
          /\ Val(resp'.body.selection).startOffset = Len(r1.text)]_vars

\* ------------------------------------------------------- redo after an edit
\* The step handled an accepted edit request: a mutating request other than
\* undo and redo that passed validation, or an upload that was applied.
AcceptedEdit ==
  \/ req'.op \in MutatingOps \ {"undo", "redo"} /\ Validated
  \/ req'.op = "upload" /\ outcome' = "applied" /\ uploads' # uploads

\* C15: after every accepted edit request the redo stack is empty.
C15_RedoClearedByEdit ==
  [][AcceptedEdit => redo_stack' = <<>>]_vars

\* ---------------------------------------------------------- history on load
\* The step is the load of an uploaded document that parsed.
UploadApplied == req'.op = "upload" /\ outcome' = "applied" /\ uploads' # uploads

\* C16: after a default load both stacks are empty and the coalescing state is
\* reset; after a successful upload the undo stack holds exactly one entry,
\* the document from before the upload, and the redo stack is empty; an undo
\* that follows the upload restores the document from before it.
C16_HistoryOnLoad ==
  [][/\ (req'.op = "init" /\ outcome' = "loaded")
          => /\ undo_stack' = <<>> /\ redo_stack' = <<>>
             /\ last_edit_time' = 0 /\ last_edit_kind' = "None"
     /\ UploadApplied => (undo_stack' = <<doc>> /\ redo_stack' = <<>>)
     /\ (req.op = "upload" /\ outcome = "applied" /\ req'.op = "undo" /\ Validated)
          => (outcome' = "applied" /\ doc' = undo_stack[Len(undo_stack)])]_vars

\* ------------------------------------------------------------ failed upload
\* C17: an upload whose bytes do not parse fails and leaves docId, version,
\* the document (content and address bindings), both history stacks and the
\* response cache as they were.
C17_FailedUploadUnchanged ==
  [][(req'.op = "upload" /\ outcome' = "failed")
     => /\ resp'.status = 400
        /\ UNCHANGED state_vars]_vars

\* ------------------------------------------------------ unresolved addresses
\* The operations that take an address, and the addresses a request carries.
AddressedOps ==
  {"insert_text", "delete_range", "delete_backward", "delete_forward",
   "insert_break", "update_node", "update_range"}

AddressesOf(r) ==
  IF r.op \in {"delete_range", "update_range"} THEN {r.args[1], r.args[3]}
  ELSE {r.args[1]}

\* The kind under which an operation records its change.
KindOf(op) ==
  CASE op = "insert_text" -> "insert"
    [] op \in {"delete_range", "delete_backward", "delete_forward"} -> "delete"
    [] op = "insert_break" -> "break"
    [] OTHER -> "style"

\* The history after n changes of one kind are recorded at time t.
RECURSIVE RecordedTimes(_, _, _, _)
RecordedTimes(s, t, kind, n) ==
  IF n = 0 THEN s ELSE RecordedTimes(record_change(s, t, kind), t, kind, n - 1)

\* The step handled an accepted edit one of whose addresses resolves to no run.
UnresolvedEdit ==
  /\ req'.op \in AddressedOps /\ Validated
  /\ \E a \in AddressesOf(req') : run_in_bookmark(doc, a) = None

\* C18: an accepted edit whose address does not resolve leaves the document as
\* it was, records its change in the history as the operation does with an
\* address that resolves (a snapshot pushed and the redo stack cleared, or the
\* change coalesced) and advances the version by one.
C18_UnresolvedAddress ==
  [][UnresolvedEdit =>
       LET recorded == RecordedTimes(EditState, now, KindOf(req'.op), PushesOf(req'))
       IN /\ doc' = doc
          /\ version' = version + 1
          /\ undo_stack' = recorded.undo_stack
          /\ redo_stack' = recorded.redo_stack
          /\ last_edit_time' = recorded.last_edit_time
          /\ last_edit_kind' = recorded.last_edit_kind]_vars

\* ---------------------------------------------------------------- docId
\* C19: docId changes only in a default load or in the load of an uploaded
\* document that parsed; no edit, undo, redo, render, cache hit, rejected
\* request or failed request changes it.
C19_DocIdStability ==
  [][doc_id' # doc_id => (req'.op = "init" /\ outcome' = "loaded") \/ UploadApplied]_vars

\* ------------------------------------------------------ the response cache
\* C20: a cache_response call under a key that is already cached, whatever
\* its payload, changes neither the stored payload nor the eviction order;
\* across every step a key that stays cached keeps its payload, and the keys
\* keep their order.
C20_CacheFirstWriteWins ==
  [][/\ \A k \in DOMAIN applied_ops :
          \A p \in {Payload("", 0, <<>>, 0, 0), resp'.body} :
            cache_response(Cache, k, p) = Cache
     /\ \A k \in DOMAIN applied_ops :
          k \in DOMAIN applied_ops' => applied_ops'[k] = applied_ops[k]
     /\ Len(applied_ops_order') >= Len(applied_ops_order)
          => SubSeq(applied_ops_order', 1, Len(applied_ops_order)) = applied_ops_order]_vars

\* An undo with nothing to undo was sent again under another page: it missed
\* the cache, passed validation (the version had not moved) and wrote the
\* cache under the key of the first, which kept its place.
C20_Witness ==
  /\ req.op = "undo" /\ outcome = "not_applied"
  /\ req.page = 2 /\ resp.body.pageIndex = 1
  /\ nsteps = 2
  /\ Len(applied_ops_order) = 1
  /\ op_cache_key(req.doc_id, req.base_version, req.client_op_id, Some(1)) \in DOMAIN applied_ops

\* ------------------------------------------------------- a full cache
\* cache_response as a function of the cache it finds: the caches SpecCache
\* starts from hold between MinCacheFill and max_applied_ops responses, and
\* responses are then cached under client operation ids up to MaxCacheKeys.
MinCacheFill == 4960
MaxCacheKeys == 5003

\* The upload the server of SpecCache accepted after start-up, sent under
\* the client operation id 0, and the server after it: upload_document on the
\* state load_default left.
FirstUpload ==
  Request("upload", Token(uuid4_hex(2), 0, OpId(0), 1), <<Some(UploadedDoc)>>)
Uploaded ==
  LET first == inject_bookmarks(DefaultDoc, 2)
      loaded == load_from_stream([doc |-> first, undo_stack |-> <<>>, redo_stack |-> <<>>,
                                  last_edit_time |-> 0, last_edit_kind |-> "None",
                                  uuid |-> 2 + NumRuns(DefaultDoc)],
                                 FirstUpload.args[1], 2 + NumRuns(DefaultDoc))
      s == [loaded.s EXCEPT !.undo_stack = push_undo_snapshot(@, first),
                            !.redo_stack = <<>>]
  IN [doc_id |-> loaded.doc_id, version |-> loaded.version, s |-> s,
      payload |-> [Payload(loaded.doc_id, loaded.version, history(s), 1, page_count(s.doc))
                     EXCEPT !.html = Some(extract_pages(s.doc, 1))]]

\* The payload redo_document builds when there is nothing to redo, the
\* response the handler caches at its end.
CachedPayload ==
  [Payload(doc_id, version, history(EditState), 1, page_count(doc))
     EXCEPT !.html = Some(extract_pages(doc, 1)), !.didRedo = Some(FALSE)]

\* The cache after the response to the upload and then the responses to the
\* client operations 1..n, under one docId and version, were cached.
CacheOf(d, v, payload, n) ==
  LET first == RequestKey(FirstUpload)
  IN [ops |-> [k \in {first} \cup {op_cache_key(d, v, OpId(i), Some(1)) : i \in 1..n} |->
                 IF k = first THEN Uploaded.payload ELSE payload],
      order |-> <<first>> \o [i \in 1..n |-> op_cache_key(d, v, OpId(i), Some(1))]]

InitCache ==
  /\ doc_id = Uploaded.doc_id
  /\ version = Uploaded.version
  /\ doc = Uploaded.s.doc
  /\ undo_stack = Uploaded.s.undo_stack
  /\ redo_stack = Uploaded.s.redo_stack
  /\ last_edit_time = Uploaded.s.last_edit_time
  /\ last_edit_kind = Uploaded.s.last_edit_kind
  /\ uuid = Uploaded.s.uuid
  /\ now = StartTime
  /\ uploads = <<>>
  /\ req = NoRequest
  /\ resp = NoResponse
  /\ outcome = "constructed"
  /\ first_resp = <<>>
  /\ applied_n = <<>>
  /\ nsteps = 0
  /\ seen = Addresses(inject_bookmarks(DefaultDoc, 2)) \cup Addresses(Uploaded.s.doc)
  /\ trail = NoTrail(Uploaded.s.doc)
  /\ renders = TRUE
  /\ exports_paragraph = TRUE
  /\ \E n \in (MinCacheFill - 1)..(max_applied_ops - 1) :
       /\ applied_ops = CacheOf(doc_id, version, CachedPayload, n).ops
       /\ applied_ops_order = CacheOf(doc_id, version, CachedPayload, n).order

\* The number a string of decimal digits reads.
Digit(c) ==
  CASE c = "0" -> 0 [] c = "1" -> 1 [] c = "2" -> 2 [] c = "3" -> 3 [] c = "4" -> 4
    [] c = "5" -> 5 [] c = "6" -> 6 [] c = "7" -> 7 [] c = "8" -> 8 [] c = "9" -> 9
RECURSIVE DecimalValue(_, _)
DecimalValue(s, acc) ==
  IF Len(s) = 0 THEN acc ELSE DecimalValue(Tail(s), 10 * acc + Digit(Head(s)))

\* The text behind the n-th colon of s, and the text before the first.
RECURSIVE AfterColons(_, _)
AfterColons(s, n) ==
  IF n = 0 THEN s
  ELSE AfterColons(Tail(s), IF Head(s) = ":" THEN n - 1 ELSE n)
RECURSIVE UpToColon(_)
UpToColon(s) ==
  IF Len(s) = 0 \/ Head(s) = ":" THEN "" ELSE Head(s) \o UpToColon(Tail(s))

\* The number of the client operation a key of the cache was cached under:
\* the third of the four parts of the key.
KeyOpNumber(key) == DecimalValue(UpToColon(AfterColons(key, 2)), 0)

\* The numbers of the client operations cached last and cached earliest.
LastCachedId == KeyOpNumber(applied_ops_order[Len(applied_ops_order)])
FirstCachedId == KeyOpNumber(Head(applied_ops_order))

\* doc_state.cache_response(doc_id, version, client_op_id, 1, payload), as
\* redo_document calls it at its end.
cache_response_call(client_op_id) ==
  LET c == cache_response(Cache, op_cache_key(doc_id, version, client_op_id, Some(1)), CachedPayload)
  IN /\ applied_ops' = c.ops
     /\ applied_ops_order' = c.order
     /\ req' = Request("cache_response", Token(doc_id, version, client_op_id, 1), <<>>)
     /\ UNCHANGED <<doc_id, version, doc, undo_stack, redo_stack, last_edit_time,
                    last_edit_kind, uuid, now, uploads, resp, outcome,
                    first_resp, applied_n, nsteps, seen, trail, renders, exports_paragraph>>

\* A response is cached under the next client operation id, or again under
\* the id of the newest or of the oldest key of the cache.
NextCache ==
  \/ /\ LastCachedId + 1 <= MaxCacheKeys
     /\ cache_response_call(OpId(LastCachedId + 1))
  \/ \E n \in {LastCachedId, FirstCachedId} :
       cache_response_call(OpId(n))

SpecCache == InitCache /\ [][NextCache]_vars

\* The keys of the eviction-order list.
OrderKeys(order) == {order[i] : i \in 1..Len(order)}

\* C21: the response cache never holds more than 5000 entries, the keys of
\* the eviction order are the keys of the cache, each once, a new key is
\* cached at the end of the order, and when the cache was full the key that
\* was cached earliest, and only that key, is evicted.
C21_CacheBoundFifo ==
  [][/\ Len(applied_ops_order') <= max_applied_ops
     /\ OrderKeys(applied_ops_order') = DOMAIN applied_ops'
     /\ Cardinality(DOMAIN applied_ops') = Len(applied_ops_order')
     /\ (req'.op = "cache_response" /\ RequestKey(req') \notin DOMAIN applied_ops)
          => applied_ops_order'
               = (IF Len(applied_ops_order) = max_applied_ops
                  THEN Tail(applied_ops_order) ELSE applied_ops_order)
                 \o <<RequestKey(req')>>]_vars

\* A response was cached into a full cache: the cache is full, the key cached
\* first (the upload's) is gone, the key cached second is now the oldest and
\* the new key is the newest.
C21_Witness ==
  /\ req.op = "cache_response"
  /\ Len(applied_ops_order) = max_applied_ops
  /\ RequestKey(FirstUpload) \notin DOMAIN applied_ops
  /\ Head(applied_ops_order) = op_cache_key(doc_id, version, OpId(1), Some(1))
  /\ applied_ops_order[max_applied_ops]
       = op_cache_key(doc_id, version, OpId(max_applied_ops), Some(1))
  /\ RequestKey(req) = applied_ops_order[max_applied_ops]

\* ------------------------------------------------------ stale stays stale
\* Requests whose docId is an id no document ever had (1), the first document's
\* (2) or the server's, and whose baseVersion is any version up to
\* MaxStaleVersion, arrive in any order, MaxStaleSteps of them accepted.
MaxStaleSteps == 3
MaxStaleVersion == 1
MaxStaleDocId == 2
TokensSent ==
  {Token(d, v, OpId(o), 1) : d \in {uuid4_hex(1), uuid4_hex(2), doc_id},
                      v \in 0..MaxStaleVersion, o \in 1..2}

NextStale ==
  \/ \E t \in TokensSent :
       /\ Admit(Request("insert_text", t, <<Addr(1), 0, <<"x">>, None>>), MaxStaleSteps)
       /\ insert_text_endpoint(t, Addr(1), 0, <<"x">>, None)
  \/ \E t \in {s \in TokensSent : s.client_op_id = OpId(1)}, file \in Files :
       /\ Admit(Request("upload", t, <<file>>), MaxStaleSteps)
       /\ upload_document_begin(t, file, MaxUploads)
  \/ \E i \in 1..Len(uploads) : upload_document_finish(i)
  \/ nsteps + Len(uploads) < MaxStaleSteps /\ init_document(1)

SpecStale == Init /\ [][NextStale]_vars

\* The (docId, baseVersion) pairs followed.
StalePairs == {uuid4_hex(d) : d \in 1..MaxStaleDocId} \X (0..MaxStaleVersion)

\* The last request handled carried the pair p and was rejected by
\* validate_version because its docId is not the server's or its baseVersion
\* is lower than the server's version (a rejection changes neither).
RejectedStale(p) ==
  /\ outcome = "conflict"
  /\ req.doc_id = p[1] /\ req.base_version = p[2]
  /\ (p[1] # doc_id \/ p[2] < version)

\* The last request that arrived carried the pair p, missed the cache and
\* passed validate_version (an upload passes it before it is suspended).
PassedValidation(p) ==
  /\ req.doc_id = p[1] /\ req.base_version = p[2]
  /\ \/ req.op \in MutatingOps /\ outcome \in {"applied", "not_applied"}
     \/ req.op = "upload" /\ outcome = "suspended"

\* C22: stale stays stale: once a request with (docId, baseVersion) was
\* rejected because its docId is not the server's docId or its baseVersion is
\* lower than the server's version, no later request with the same pair
\* passes validation: all that miss the cache are rejected.
C22_StaleStaysStale ==
  \A p \in StalePairs : [](RejectedStale(p) => [](~PassedValidation(p)))

\* A request of the server's docId was rejected when the version had moved
\* two steps past its baseVersion: it is stale since the step before.
C22_Witness ==
  /\ outcome = "conflict"
  /\ req.doc_id = doc_id
  /\ req.base_version + 2 <= version
  /\ <<req.doc_id, req.base_version>> \in StalePairs

\* ------------------------------------------------------------- patches
\* The paragraphs of d that hold a run with the address a.
ParagraphsOf(d, a) == {p \in 1..Len(d) : \E k \in 1..Len(d[p].runs) : d[p].runs[k].id = a}

\* C23: for any two addresses, bound or not, the range patch is a fragment
\* only if both resolve to runs of one paragraph and is null when either does
\* not resolve or the runs lie in different paragraphs; the paragraph patch is
\* null when its address does not resolve.
C23_RangePatch ==
  \A a \in seen \cup {"", RunName(uuid + 1)}, b \in seen \cup {"", RunName(uuid + 1)} :
    LET patch == make_single_paragraph_patch_if_same_paragraph(doc, a, b)
    IN /\ IsSome(patch) => ParagraphsOf(doc, a) \cap ParagraphsOf(doc, b) # {}
       /\ (ParagraphsOf(doc, a) = {} \/ ParagraphsOf(doc, b) = {}) => patch = None
       /\ ParagraphsOf(doc, a) \cap ParagraphsOf(doc, b) = {} => patch = None
       /\ ParagraphsOf(doc, a) = {} => make_paragraph_patch_by_run_id(doc, a) = None

\* An insert was answered with a patch, and the document has two runs of one
\* paragraph (a fragment), two of different paragraphs (null) and an address
\* bound to nothing (null).
C23_Witness ==
  /\ req.op = "insert_text" /\ outcome = "applied" /\ IsSome(resp.body.patches)
  /\ \E a \in Addresses(doc), b \in Addresses(doc), c \in Addresses(doc) :
       /\ a # b
       /\ IsSome(make_single_paragraph_patch_if_same_paragraph(doc, a, b))
       /\ make_single_paragraph_patch_if_same_paragraph(doc, a, c) = None
       /\ make_single_paragraph_patch_if_same_paragraph(doc, a, "") = None
       /\ make_paragraph_patch_by_run_id(doc, "") = None

\* --------------------------------------------------- document-wide style
\* Requests a behaviour of SpecDocStyle accepts.
MaxDocStyleSteps == 2
\* Values an updateDocumentStyle request carries besides the absent one.
StyleFontSize == 14
StyleIndent == 24

\* The style objects sent: each field absent, usable, or present with a value
\* the code does not apply (an empty name, size 0, a color name, a color with
\* a negative component, an alignment that is none of the four).  Among the
\* colors are one written with fullwidth digits, which int(_, 16) reads, and
\* one with a no-break space, which it strips, and a unit separator, which it
\* does not.
DocStyles ==
  {[NoStyle EXCEPT !.font_name = n, !.font_size = s, !.bold = b, !.alignment = a] :
     n \in {None, Some("Arial"), Some("")},
     s \in {None, Some(StyleFontSize), Some(0)},
     b \in {None, Some(TRUE), Some(FALSE)},
     a \in {None, Some("Center"), Some("middle")}}
  \cup
  {[NoStyle EXCEPT !.color = c, !.italic = i, !.first_line_indent = f] :
     c \in {None, Red.color, Some(<<"#", "0", "a", "0", "B", "0", "c">>),
            Some(<<"r", "e", "d">>), Some(<<"#", "-", "1", "0", "0", "0", "0">>),
            Some(<<"#", "U+FF11", "U+FF12", "0", "0", "0", "0">>),
            Some(<<"#", "U+00A0", "f", "0", "0", "U+0663", "U+001F">>)},
     i \in {None, Some(TRUE)},
     f \in {None, Some(StyleIndent)}}

NextDocStyle ==
  \/ \E r \in Fresh("insert_text", {<<Addr(1), 1, <<"x">>, Some(Bold)>>}) :
       /\ Admit(r, MaxDocStyleSteps)
       /\ insert_text_endpoint(TokenOf(r), r.args[1], r.args[2], r.args[3], r.args[4])
  \/ \E r \in Fresh("update", {<<style>> : style \in DocStyles}) :
       /\ Admit(r, MaxDocStyleSteps)
       /\ update_document(TokenOf(r), r.args[1])

SpecDocStyle == Init /\ [][NextDocStyle]_vars

\* The step is an accepted updateDocumentStyle request.
DocStyleStep == req'.op = "update" /\ outcome' = "applied" /\ nsteps' = nsteps + 1

\* The step keeps the paragraphs, their runs, the runs' texts and addresses.
SameTextsAndAddresses ==
  /\ Len(doc') = Len(doc)
  /\ \A p \in 1..Len(doc) :
       /\ Len(doc'[p].runs) = Len(doc[p].runs)
       /\ \A i \in 1..Len(doc[p].runs) :
            /\ doc'[p].runs[i].text = doc[p].runs[i].text
            /\ doc'[p].runs[i].id = doc[p].runs[i].id
  /\ Nodes(doc') = Nodes(doc)

\* The value of an attribute after the step: the requested one when the
\* request sets it, the old one otherwise.
SetOr(sets, value, old) == IF sets THEN value ELSE old

\* The formatting of every run and paragraph after a step with the style st,
\* when the code applies exactly the fields for which Applies holds.
StyledBy(st, name, size, color, align) ==
  /\ \A pos \in Positions(doc) :
       LET f == RunAt(doc, pos).font
           g == RunAt(doc', pos).font
       IN /\ g.name = SetOr(name, Val(st.font_name), f.name)
          /\ g.size = SetOr(size, Val(st.font_size), f.size)
          /\ g.bold = SetOr(IsSome(st.bold), Val(st.bold), f.bold)
          /\ g.italic = SetOr(IsSome(st.italic), Val(st.italic), f.italic)
          /\ g.color = SetOr(color, Val(ParseColor(Val(st.color))), f.color)
  /\ \A p \in 1..Len(doc) :
       /\ doc'[p].align = SetOr(align, Lower(Val(st.alignment)), doc[p].align)
       /\ doc'[p].indent = SetOr(IsSome(st.first_line_indent), Val(st.first_line_indent),
                                 doc[p].indent)

\* The statement as written: every attribute present in the request is set on
\* every run or paragraph.
C24_PresentAttributesSet ==
  [][DocStyleStep =>
       LET st == req'.args[1]
       IN /\ SameTextsAndAddresses
          /\ IsSome(st.color) => IsSome(ParseColor(Val(st.color)))
          /\ StyledBy(st, IsSome(st.font_name), IsSome(st.font_size),
                      IsSome(st.color) /\ IsSome(ParseColor(Val(st.color))),
                      IsSome(st.alignment))]_vars

\* C24: an accepted updateDocumentStyle request sets on every run each font
\* attribute the request carries with a usable value (a non-empty name, a
\* non-zero size, bold, italic, a color that starts with "#" and whose three
\* pairs of characters int(_, 16) reads as 0..255) and on every paragraph each
\* usable paragraph attribute (left, center, right or justify in any case, a
\* first-line indent), leaves every other attribute unchanged and changes no
\* text, no run or paragraph structure and no address.
C24_UpdateStyleDocument ==
  [][DocStyleStep =>
       LET st == req'.args[1]
       IN /\ SameTextsAndAddresses
          /\ StyledBy(st, IsSome(st.font_name) /\ Val(st.font_name) # "",
                      IsSome(st.font_size) /\ Val(st.font_size) # 0,
                      IsSome(st.color) /\ IsSome(ParseColor(Val(st.color))),
                      IsSome(st.alignment)
                        /\ Lower(Val(st.alignment)) \in {"left", "center", "right", "justify"})]_vars

\* A request with a font name, bold set to false and an alignment, but no
\* size, was accepted on a document that had a bold run: every run has the
\* name and is not bold, every paragraph the alignment, the sizes are kept.
C24_Witness ==
  /\ req.op = "update" /\ outcome = "applied"
  /\ req.args[1].font_name = Some("Arial") /\ req.args[1].bold = Some(FALSE)
  /\ req.args[1].alignment = Some("Center") /\ req.args[1].font_size = None
  /\ Len(undo_stack) = 2
  /\ \E pos \in Positions(undo_stack[2]) : RunAt(undo_stack[2], pos).font.bold
  /\ \A pos \in Positions(doc) :
       /\ RunAt(doc, pos).font.name = "Arial" /\ ~RunAt(doc, pos).font.bold
       /\ RunAt(doc, pos).font.size = DefaultFont.size
  /\ \A p \in 1..Len(doc) : doc[p].align = "center"

\* ---------------------------------------------------------- insert break
\* The step is an accepted insertBreak whose address resolves to a run.
BreakAtRun ==
  /\ req'.op = "insert_break" /\ outcome' = "applied" /\ nsteps' = nsteps + 1
  /\ run_in_bookmark(doc, req'.args[1]) # None

\* The texts of the runs i..j of a paragraph, as one text.
ParagraphText(para, i, j) == ConcatSeqs([n \in 1..Len(para.runs) |-> para.runs[n].text], i, j)

\* C25: insertBreak at (A, k), A bound to the i-th run of paragraph P with the
\* text T and k clamped to 0..|T|: one paragraph more, the new one right after
\* P and the others as they were; T[:k], if non-empty, is the text of a run of
\* P with a new address; the new paragraph holds every character of P from
\* the caret on; A resolves to a run of the new paragraph with the text T[k:];
\* the caret returned is (A, 0).
C25_InsertBreak ==
  [][BreakAtRun =>
       LET A == req'.args[1]
           p == run_in_bookmark(doc, A)[1]
           i == run_in_bookmark(doc, A)[2]
           T == doc[p].runs[i].text
           k == Clamp(0, req'.args[2], Len(T))
           last == Len(doc[p].runs)
       IN /\ Len(doc') = Len(doc) + 1
          /\ \A q \in 1..(p - 1) : doc'[q] = doc[q]
          /\ \A q \in (p + 1)..Len(doc) : doc'[q + 1] = doc[q]
          /\ k > 0 => \E n \in 1..Len(doc'[p].runs) :
                        /\ doc'[p].runs[n].text = Take(T, k)
                        /\ doc'[p].runs[n].id \notin seen
          /\ ParagraphText(doc'[p + 1], 1, Len(doc'[p + 1].runs))
               = Drop(T, k) \o ParagraphText(doc[p], i + 1, last)
          /\ ParagraphText(doc'[p], 1, Len(doc'[p].runs))
               = ParagraphText(doc[p], 1, i - 1) \o Take(T, k)
          /\ run_in_bookmark(doc', A) # None
          /\ run_in_bookmark(doc', A)[1] = p + 1
          /\ RunAt(doc', run_in_bookmark(doc', A)).text = Drop(T, k)
          /\ resp'.body.selection = Some(Selection(A, 0, A, 0))]_vars

\* ----------------------------------------------------------- delete range
\* Requests a behaviour of SpecRange accepts.
MaxRangeSteps == 2
\* Offsets a range request carries for the k-th run: below 0, inside the
\* text, beyond its end.
RangeOffsets(k) == {-1, 1, End(k) + 1}
\* The runs, by their place in the document, a range request goes from and to.
RangeEnds == {<<1, 1>>, <<1, 2>>, <<1, 3>>, <<3, 1>>, <<2, 4>>}

\* The client inserts into a run (which leaves its paragraph with three runs)
\* and deletes ranges within a run and between two runs, in either order.
NextRange ==
  \/ \E r \in Fresh("insert_text", {<<Addr(1), 1, <<"x">>, None>>}) :
       /\ Admit(r, MaxRangeSteps)
       /\ insert_text_endpoint(TokenOf(r), r.args[1], r.args[2], r.args[3], r.args[4])
  \/ \E ab \in RangeEnds :
     \E r \in Fresh("delete_range", {<<Addr(ab[1]), so, Addr(ab[2]), eo>> :
                                       so \in RangeOffsets(ab[1]), eo \in RangeOffsets(ab[2])}) :
       /\ Admit(r, MaxRangeSteps)
       /\ delete_range_endpoint(TokenOf(r), r.args[1], r.args[2], r.args[3], r.args[4])

SpecRange == Init /\ [][NextRange]_vars

\* The step is an accepted deleteRange whose addresses both resolve.
DeleteRangeStep ==
  /\ req'.op = "delete_range" /\ outcome' = "applied" /\ nsteps' = nsteps + 1
  /\ run_in_bookmark(doc, req'.args[1]) # None
  /\ run_in_bookmark(doc, req'.args[3]) # None

\* The addresses and texts of the runs of d, in document order.
RunsOf(d) ==
  [k \in 1..NumRuns(d) |-> [id |-> RunAt(d, RunList(d)[k]).id,
                            text |-> RunAt(d, RunList(d)[k]).text]]

\* The runs of d after a cross-run delete from offset a of the ks-th run to
\* offset b of the ke-th: the runs strictly between the two are gone, the
\* start run keeps its prefix, the end run its suffix, the others their text.
AfterCrossRunDelete(d, ks, a, ke, b) ==
  LET marked == [k \in 1..NumRuns(d) |->
                   [id |-> RunsOf(d)[k].id,
                    text |-> IF k = ks THEN Take(RunsOf(d)[k].text, a)
                             ELSE IF k = ke THEN Drop(RunsOf(d)[k].text, b)
                             ELSE RunsOf(d)[k].text,
                    gone |-> Min2(ks, ke) < k /\ k < Max2(ks, ke)]]
      kept == SelectSeq(marked, LAMBDA r : ~r.gone)
  IN [k \in 1..Len(kept) |-> [id |-> kept[k].id, text |-> kept[k].text]]

\* C26: deleteRange with resolvable addresses: within one run with clamped
\* offsets a < b the run reads T[:a] + T[b:] and nothing else changes; across
\* two runs the start run keeps its prefix, the end run its suffix, the runs
\* strictly between them are removed and the runs outside keep their text;
\* no address is created and no surviving run changes its address.
C26_DeleteRange ==
  [][DeleteRangeStep =>
       LET start_pos == run_in_bookmark(doc, req'.args[1])
           end_pos == run_in_bookmark(doc, req'.args[3])
           ks == IndexOf(RunList(doc), start_pos)
           ke == IndexOf(RunList(doc), end_pos)
           a == Clamp(0, req'.args[2], Len(RunAt(doc, start_pos).text))
           b == Clamp(0, req'.args[4], Len(RunAt(doc, end_pos).text))
       IN /\ (start_pos = end_pos /\ a < b)
               => doc' = ReplaceRun(doc, start_pos,
                           <<[RunAt(doc, start_pos) EXCEPT
                                !.text = Take(@, a) \o Drop(@, b)]>>)
          /\ start_pos # end_pos
               => RunsOf(doc') = AfterCrossRunDelete(doc, ks, a, ke, b)
          /\ Addresses(doc') \subseteq Addresses(doc)]_vars

\* ------------------------------------------------------ range style coverage
\* The arguments of a style request as update_range_style gets them.
RangeArgs(r) ==
  IF r.op = "update_node" THEN <<r.args[1], r.args[2], r.args[1], r.args[3], r.args[4]>>
  ELSE r.args

\* The step is an accepted updateNodeStyle or updateRangeStyle whose addresses
\* both resolve.
RangeStyleStep ==
  /\ req'.op \in {"update_node", "update_range"}
  /\ outcome' = "applied" /\ nsteps' = nsteps + 1
  /\ run_in_bookmark(doc, RangeArgs(req')[1]) # None
  /\ run_in_bookmark(doc, RangeArgs(req')[3]) # None

\* The font of every character of d, in document order.
CharFonts(d) ==
  ConcatSeqs([k \in 1..NumRuns(d) |->
                [c \in 1..Len(RunsOf(d)[k].text) |-> RunAt(d, RunList(d)[k]).font]],
             1, NumRuns(d))

\* The number of characters of d before its k-th run.
CharsBefore(d, k) == Len(ConcatSeqs([n \in 1..NumRuns(d) |-> RunsOf(d)[n].text], 1, k - 1))

\* C27: after a range style whose addresses resolve, every character inside
\* the range (between the two clamped ends; none when both ends are on one run
\* and the start offset is not below the end offset) has the requested font
\* attributes and every character outside keeps the font it had.
C27_RangeStyleCoverage ==
  [][RangeStyleStep =>
       LET args == RangeArgs(req')
           ks == IndexOf(RunList(doc), run_in_bookmark(doc, args[1]))
           ke == IndexOf(RunList(doc), run_in_bookmark(doc, args[3]))
           from == CharsBefore(doc, ks) + Clamp(0, args[2], Len(RunsOf(doc)[ks].text))
           to == CharsBefore(doc, ke) + Clamp(0, args[4], Len(RunsOf(doc)[ke].text))
           lo == IF ks = ke THEN from ELSE Min2(from, to)
           hi == IF ks = ke THEN to ELSE Max2(from, to)
       IN /\ Len(CharFonts(doc')) = Len(CharFonts(doc))
          /\ \A c \in 1..Len(CharFonts(doc)) :
               CharFonts(doc')[c] = IF lo < c /\ c <= hi
                                    THEN apply_style_to_font(CharFonts(doc)[c], args[5])
                                    ELSE CharFonts(doc)[c]]_vars

\* ------------------------------------------- paragraph attributes of a range
\* Requests a behaviour of SpecParaStyle accepts.
MaxParaStyleSteps == 2
Indented == [NoStyle EXCEPT !.first_line_indent = Some(StyleIndent)]

\* The client styles spans of one run (also empty ones) and ranges between
\* two runs, in either order, with font and with paragraph attributes, and
\* deletes the range that empties the second paragraph.
NextParaStyle ==
  \/ \E k \in {1, 2} :
     \E r \in Fresh("update_node", {<<Addr(k), so, eo, st>> :
                                      so \in {0, 1, End(k) + 1}, eo \in {0, 1, End(k) + 1},
                                      st \in {Centered, Bold}}) :
       /\ Admit(r, MaxParaStyleSteps)
       /\ update_node(TokenOf(r), r.args[1], r.args[2], r.args[3], r.args[4])
  \/ \E r \in Fresh("update_range", {<<Addr(ab[1]), so, Addr(ab[2]), eo, st>> :
                                       ab \in {<<1, 2>>, <<1, 3>>, <<2, 1>>, <<3, 1>>, <<2, 2>>},
                                       so \in {0, 1}, eo \in {0, 1},
                                       st \in {Centered, Indented}}) :
       /\ Admit(r, MaxParaStyleSteps)
       /\ update_range(TokenOf(r), r.args[1], r.args[2], r.args[3], r.args[4], r.args[5])
  \/ \E r \in Fresh("delete_range", {<<Addr(1), 1, Addr(3), 0>>}) :
       /\ Admit(r, MaxParaStyleSteps)
       /\ delete_range_endpoint(TokenOf(r), r.args[1], r.args[2], r.args[3], r.args[4])

SpecParaStyle == Init /\ [][NextParaStyle]_vars

\* C28: a range style whose two ends are on the same run with the start
\* offset not below the end offset, whatever its style object, leaves the
\* document (texts, fonts, runs, addresses, paragraph formatting) unchanged.
C28_DegenerateRangeNoOp ==
  [][(/\ RangeStyleStep
      /\ run_in_bookmark(doc, RangeArgs(req')[1]) = run_in_bookmark(doc, RangeArgs(req')[3])
      /\ RangeArgs(req')[2] >= RangeArgs(req')[4])
       => doc' = doc]_vars

\* The paragraphs of d that hold one of the runs from the i-th to the j-th.
ParagraphsOfRuns(d, i, j) == {RunList(d)[k][1] : k \in Min2(i, j)..Max2(i, j)}

\* C29: the alignment and first-line indent of an updateRangeStyle request
\* are applied to the paragraphs that hold at least one run from the start
\* run to the end run inclusive, and no other paragraph changes its
\* formatting.
C29_RangeParagraphs ==
  [][(/\ RangeStyleStep
      /\ IsSome(RangeArgs(req')[5].alignment) \/ IsSome(RangeArgs(req')[5].first_line_indent))
       => LET args == RangeArgs(req')
              ks == IndexOf(RunList(doc), run_in_bookmark(doc, args[1]))
              ke == IndexOf(RunList(doc), run_in_bookmark(doc, args[3]))
          IN /\ Len(doc') = Len(doc)
             /\ \A p \in 1..Len(doc) :
                  LET want == IF p \in ParagraphsOfRuns(doc, ks, ke)
                              THEN apply_style_to_paragraph(doc[p], args[5]) ELSE doc[p]
                  IN doc'[p].align = want.align /\ doc'[p].indent = want.indent]_vars

\* ------------------------------------------------------ insert text cases
\* Requests a behaviour of SpecInsert accepts.
MaxInsertSteps == 2

\* The client breaks a paragraph (at the end of a run this leaves an empty run
\* under the address) and inserts texts, also empty ones, with and without a
\* style, at offsets below 0, inside and beyond the text.
NextInsert ==
  \/ \E r \in Fresh("insert_break", {<<Addr(1), 0>>, <<Addr(1), End(1)>>}) :
       /\ Admit(r, MaxInsertSteps)
       /\ insert_break_endpoint(TokenOf(r), r.args[1], r.args[2])
  \/ \E k \in {1, 2} :
     \E r \in Fresh("insert_text", {<<Addr(k), off, x, st>> :
                                      off \in InsertOffsets(k),
                                      x \in {<<>>, <<"x">>, <<"x", "y">>},
                                      st \in {None, Some(Bold)}}) :
       /\ Admit(r, MaxInsertSteps)
       /\ insert_text_endpoint(TokenOf(r), r.args[1], r.args[2], r.args[3], r.args[4])

SpecInsert == Init /\ [][NextInsert]_vars

\* The step is an accepted insertText whose address resolves.
InsertStep ==
  /\ req'.op = "insert_text" /\ outcome' = "applied" /\ nsteps' = nsteps + 1
  /\ run_in_bookmark(doc, req'.args[1]) # None

\* The font of the inserted text: the run's, with the style override if any.
InsertedFont(font, st) == IF IsSome(st) THEN apply_style_to_font(font, Val(st)) ELSE font

\* C30: insertText at (A, k), A bound to a run with text T, k clamped to
\* 0..|T|: an empty text changes nothing; at k = 0 of an empty run the text
\* (and the style override) is set in place, with no split and no new address;
\* otherwise the run is replaced, in this order, by T[:k] if non-empty (new
\* address, the run's font), the inserted text (address A, the run's font under
\* the style override) and T[k:] if non-empty (new address, the run's font);
\* every other run and the paragraphs stay as they were.
C30_InsertTextCases ==
  [][InsertStep =>
       LET A == req'.args[1]
           x == req'.args[3]
           st == req'.args[4]
           pos == run_in_bookmark(doc, A)
           run == RunAt(doc, pos)
           T == run.text
           k == Clamp(0, req'.args[2], Len(T))
           n_pre == IF k > 0 THEN 1 ELSE 0
           n_post == IF k < Len(T) THEN 1 ELSE 0
           new == doc'[pos[1]].runs
           i == pos[2]
       IN /\ x = <<>> => doc' = doc
          /\ (x # <<>> /\ T = <<>>)
               => doc' = ReplaceRun(doc, pos, <<NewRun(A, x, InsertedFont(run.font, st))>>)
          /\ (x # <<>> /\ T # <<>>)
               => /\ doc' = ReplaceRun(doc, pos, SubSeq(new, i, i + n_pre + n_post))
                  /\ Len(new) = Len(doc[pos[1]].runs) + n_pre + n_post
                  /\ new[i + n_pre] = NewRun(A, x, InsertedFont(run.font, st))
                  /\ n_pre = 1 => /\ new[i].text = Take(T, k)
                                  /\ new[i].font = run.font
                                  /\ new[i].id \notin seen
                  /\ n_post = 1 => /\ new[i + n_pre + 1].text = Drop(T, k)
                                   /\ new[i + n_pre + 1].font = run.font
                                   /\ new[i + n_pre + 1].id \notin seen
                                   /\ n_pre = 1 => new[i + 2].id # new[i].id
                  /\ DocText(doc') = Take(DocText(doc), CharsBefore(doc, IndexOf(RunList(doc), pos)) + k)
                                       \o x
                                       \o Drop(DocText(doc), CharsBefore(doc, IndexOf(RunList(doc), pos)) + k)]_vars

\* A bold "x" was inserted one beyond the end of the first line: the offset
\* was clamped to the end, the line is in a run with a new address and its own
\* font, the bold "x" follows it under the address of the request, and there
\* is no third segment.
C30_Witness ==
  /\ req.op = "insert_text" /\ outcome = "applied"
  /\ req.args[2] = Len(DefaultLine1) + 1
  /\ req.args[3] = <<"x">> /\ req.args[4] = Some(Bold)
  /\ run_in_bookmark(doc, req.args[1]) # None
  /\ LET pos == run_in_bookmark(doc, req.args[1])
     IN /\ pos[2] = 2
        /\ Len(doc[pos[1]].runs) = 2
        /\ RunAt(doc, pos).text = <<"x">> /\ RunAt(doc, pos).font.bold
        /\ doc[pos[1]].runs[1].text = DefaultLine1
        /\ ~doc[pos[1]].runs[1].font.bold
        /\ doc[pos[1]].runs[1].id # req.args[1]

\* ---------------------------------------------------- zero-length segments
\* The step is an accepted request of an operation that splits runs.
SplittingStep ==
  /\ req'.op \in {"update_node", "update_range", "insert_text", "insert_break"}
  /\ outcome' = "applied" /\ nsteps' = nsteps + 1

\* The addresses bound to runs of d with empty text.
EmptyRuns(d) == {RunAt(d, pos).id : pos \in {q \in Positions(d) : RunAt(d, q).text = <<>>}}

\* C31: no split-producing operation creates a run with empty text: after an
\* accepted range style, insertText or insertBreak, at any offset, every
\* address bound to an empty run was bound to an empty run before.
C31_NoEmptySegments ==
  [][SplittingStep => EmptyRuns(doc') \subseteq EmptyRuns(doc)]_vars

\* ------------------------------------------------------ undo and redo steps
\* The step is an undo (a redo) request that passed validation.
UndoStep == req'.op = "undo" /\ outcome' \in {"applied", "not_applied"} /\ nsteps' = nsteps + 1
RedoStep == req'.op = "redo" /\ outcome' \in {"applied", "not_applied"} /\ nsteps' = nsteps + 1

\* In the current state an undo followed at once by a redo, and a redo
\* followed at once by an undo, give back the document and the stack depths.
RoundTrips ==
  /\ can_undo(EditState)
       => LET back == redo(undo(EditState).s).s
          IN /\ back.doc = doc
             /\ Len(back.undo_stack) = Len(undo_stack)
             /\ Len(back.redo_stack) = Len(redo_stack)
  /\ can_redo(EditState)
       => LET back == undo(redo(EditState).s).s
          IN /\ back.doc = doc
             /\ Len(back.undo_stack) = Len(undo_stack)
             /\ Len(back.redo_stack) = Len(redo_stack)

\* C32: an undo with an empty undo stack (a redo with an empty redo stack)
\* reports failure and leaves the document and both stacks unchanged; an undo
\* with a non-empty undo stack pops its top, pushes the current document on the
\* redo stack and makes the popped snapshot the document; a redo does the
\* mirror image; undo then redo, and redo then undo, restore the document and
\* the stack depths.
C32_UndoRedoSteps ==
  [][/\ UndoStep =>
          IF undo_stack = <<>>
          THEN /\ resp'.body.didUndo = Some(FALSE)
               /\ doc' = doc /\ undo_stack' = undo_stack /\ redo_stack' = redo_stack
          ELSE /\ resp'.body.didUndo = Some(TRUE)
               /\ doc' = undo_stack[Len(undo_stack)]
               /\ undo_stack' = SubSeq(undo_stack, 1, Len(undo_stack) - 1)
               /\ redo_stack' = Append(redo_stack, doc)
     /\ RedoStep =>
          IF redo_stack = <<>>
          THEN /\ resp'.body.didRedo = Some(FALSE)
               /\ doc' = doc /\ undo_stack' = undo_stack /\ redo_stack' = redo_stack
          ELSE /\ resp'.body.didRedo = Some(TRUE)
               /\ doc' = redo_stack[Len(redo_stack)]
               /\ redo_stack' = SubSeq(redo_stack, 1, Len(redo_stack) - 1)
               /\ undo_stack' = Append(undo_stack, doc)
     /\ RoundTrips']_vars

\* An edit was undone and then redone: the document is the one the edit left,
\* the undo stack holds one snapshot and the redo stack none.
C32_Witness ==
  /\ req.op = "redo" /\ outcome = "applied"
  /\ trail.undos = 1 /\ trail.redos = 1
  /\ doc = trail.post /\ doc # undo_stack[Len(undo_stack)]
  /\ Len(undo_stack) = 1 /\ redo_stack = <<>>

\* ---------------------------------------------- when coalescing does not apply
\* Requests a behaviour of SpecRecord accepts or suspends.
MaxRecordSteps == 3

\* Every endpoint that records a change, the two loads, undo and redo, while
\* the clock moves: inserts, deletes of a range, backward (one and two
\* characters) and forward, breaks, styles of the document, of a run and of a
\* range (with addresses that resolve and one that does not), uploads that
\* parse and one that does not.
NextRecord ==
  \/ \E r \in Fresh("insert_text", {<<Addr(1), 1, <<"x">>, None>>}) :
       /\ Admit(r, MaxRecordSteps)
       /\ insert_text_endpoint(TokenOf(r), r.args[1], r.args[2], r.args[3], r.args[4])
  \/ \E r \in Fresh("delete_range", {<<Addr(1), 1, Addr(2), 1>>}) :
       /\ Admit(r, MaxRecordSteps)
       /\ delete_range_endpoint(TokenOf(r), r.args[1], r.args[2], r.args[3], r.args[4])
  \/ \E r \in Fresh("delete_backward", {<<Addr(2), End(2), 1>>, <<Addr(2), End(2), 2>>}) :
       /\ Admit(r, MaxRecordSteps)
       /\ delete_backward_endpoint(TokenOf(r), r.args[1], r.args[2], r.args[3])
  \/ \E r \in Fresh("delete_forward", {<<Addr(1), 1, 1>>}) :
       /\ Admit(r, MaxRecordSteps)
       /\ delete_forward_endpoint(TokenOf(r), r.args[1], r.args[2], r.args[3])
  \/ \E r \in Fresh("insert_break", {<<Addr(1), 1>>}) :
       /\ Admit(r, MaxRecordSteps)
       /\ insert_break_endpoint(TokenOf(r), r.args[1], r.args[2])
  \/ \E r \in Fresh("update", {<<Bold>>}) :
       /\ Admit(r, MaxRecordSteps)
       /\ update_document(TokenOf(r), r.args[1])
  \/ \E r \in Fresh("update_node", {<<Addr(1), 0, 1, Red>>, <<"", 0, 1, Red>>}) :
       /\ Admit(r, MaxRecordSteps)
       /\ update_node(TokenOf(r), r.args[1], r.args[2], r.args[3], r.args[4])
  \/ \E r \in Fresh("update_range", {<<Addr(1), 1, Addr(2), 1, Bold>>,
                                     <<"Foo", 1, Addr(2), 1, Bold>>}) :
       /\ Admit(r, MaxRecordSteps)
       /\ update_range(TokenOf(r), r.args[1], r.args[2], r.args[3], r.args[4], r.args[5])
  \/ \E r \in Fresh("undo", {<<>>}) :
       Admit(r, MaxRecordSteps) /\ undo_document(TokenOf(r))
  \/ \E r \in Fresh("redo", {<<>>}) :
       Admit(r, MaxRecordSteps) /\ redo_document(TokenOf(r))
  \/ \E r \in Fresh("upload", {<<f>> : f \in Files}) :
       /\ Admit(r, MaxRecordSteps)
       /\ upload_document_begin(TokenOf(r), r.args[1], MaxUploads)
  \/ \E i \in 1..Len(uploads) : upload_document_finish(i)
  \/ nsteps + Len(uploads) < MaxRecordSteps /\ init_document(1)
  \/ \E delta \in TickSteps : Tick(delta)

SpecRecord == Init /\ [][NextRecord]_vars

\* The step is an accepted insertText.
InsertRecorded == req'.op = "insert_text" /\ outcome' = "applied" /\ nsteps' = nsteps + 1

\* The step is an edit of another kind that records a change: a delete, a
\* break, a style of the document, or a style of a run or range whose
\* addresses resolve (update_range_style records the change after it resolved
\* both); the request was answered or the method raised after recording.
OtherEditRecorded ==
  /\ nsteps' = nsteps + 1
  /\ outcome' \in {"applied", "raised"}
  /\ \/ req'.op \in {"delete_range", "delete_backward", "delete_forward",
                      "insert_break", "update"}
     \/ /\ req'.op = "update_node"
        /\ run_in_bookmark(doc, req'.args[1]) # None
     \/ /\ req'.op = "update_range"
        /\ run_in_bookmark(doc, req'.args[1]) # None
        /\ run_in_bookmark(doc, req'.args[3]) # None

\* No undo or redo was accepted since the last edit or load, so that the
\* trail ends with the most recent recorded change.
TrailCurrent == trail.undos = 0 /\ trail.redos = 0

\* The last accepted request recorded a change: an insertText (which records
\* one or is coalesced) or a request that pushed a snapshot; a style whose
\* address does not resolve records none.
LastRecorded(past) ==
  \/ past[Len(past)].op = "insert_text"
  \/ past[Len(past)].pushed

\* The step pushes the document it found as a new snapshot.
PushesSnapshot == undo_stack' = Append(undo_stack, doc)

\* C33: an insertText pushes a new undo snapshot when the most recent recorded
\* change was not an insert, when at least 2.5 time units have passed since
\* the most recent recorded or coalesced change, and when it is the first
\* change after a default load or an upload that parsed; every edit of another
\* kind that records a change (a delete, a break, a style) pushes a new
\* snapshot.
C33_WhenNotCoalesced ==
  [][/\ (InsertRecorded /\ last_edit_kind # "insert") => PushesSnapshot
     /\ (InsertRecorded /\ now - last_edit_time >= CoalesceWindow) => PushesSnapshot
     /\ (InsertRecorded /\ trail.past = <<>>) => PushesSnapshot
     /\ (InsertRecorded /\ TrailCurrent /\ trail.past # <<>>
           /\ \/ LastRecorded(trail.past) /\ trail.past[Len(trail.past)].op # "insert_text"
              \/ LastRecorded(trail.past)
                   /\ now - trail.past[Len(trail.past)].time >= CoalesceWindow)
          => PushesSnapshot
     /\ OtherEditRecorded
          => /\ Len(undo_stack') > Len(undo_stack)
             /\ SubSeq(undo_stack', 1, Len(undo_stack) + 1) = Append(undo_stack, doc)]_vars

\* An insert, an upload that parsed and, the clock not having moved, another
\* insert, the first change after the upload: it pushed the uploaded document
\* on top of the snapshot the upload pushed, the document after the first
\* insert.
C33_Witness ==
  /\ req.op = "insert_text" /\ outcome = "applied"
  /\ nsteps = 3 /\ now = StartTime
  /\ TrailCurrent /\ Len(trail.past) = 1 /\ trail.past[1].pushed
  /\ "Foo" \in Addresses(trail.past[1].doc)
  /\ Len(undo_stack) = 3
  /\ undo_stack[3] = trail.past[1].doc
  /\ DocText(undo_stack[2]) = Take(DefaultLine1, 1) \o <<"x">> \o Drop(DefaultLine1, 1)
                                 \o DefaultLine2 \o DefaultLine3

\* ------------------------------------------------------- patch confinement
\* The step is an accepted mutating request answered with a paragraph patch.
PatchedStep ==
  /\ req'.op \in MutatingOps
  /\ outcome' = "applied" /\ nsteps' = nsteps + 1
  /\ resp'.body.patches # None

\* C34: when the response of a mutating request carries a single-paragraph
\* patch, no paragraph other than the patched one was modified, removed or
\* created by the request.
C34_PatchConfinement ==
  [][PatchedStep =>
       LET anchor == Val(resp'.body.patches)[1].anchorName
       IN /\ Len(doc') = Len(doc)
          /\ \A p \in 1..Len(doc) : p \notin ParagraphsOf(doc', anchor) => doc'[p] = doc[p]]_vars

\* ------------------------------------------------ effective edits are undoable
\* The step is an accepted edit request that changed the document.
EffectiveEdit ==
  /\ req'.op \in MutatingOps \ {"undo", "redo"}
  /\ outcome' = "applied" /\ nsteps' = nsteps + 1
  /\ doc' # doc

\* C35: after an accepted edit request that changed the document, in any
\* sequence of edits, undos and redos and at any timing, the undo stack is not
\* empty and one undo gives a document that existed before the request: the
\* one the request found or one of the snapshots taken before it.
C35_EffectiveEditUndoable ==
  [][EffectiveEdit =>
       /\ undo_stack' # <<>>
       /\ undo(EditState').s.doc \in {doc} \cup {undo_stack[i] : i \in 1..Len(undo_stack)}]_vars

\* ------------------------------------------------------ delete step progress
\* The step is an accepted deleteBackward of one step whose caret resolves
\* and is not at the very start of the document: offset 0 of the first run of
\* the first paragraph.
BackwardStep ==
  /\ req'.op = "delete_backward" /\ req'.args[3] = 1
  /\ outcome' = "applied" /\ nsteps' = nsteps + 1
  /\ run_in_bookmark(doc, req'.args[1]) # None
  /\ ~(run_in_bookmark(doc, req'.args[1]) = <<1, 1>> /\ req'.args[2] <= 0)

\* The step removed one character and no paragraph.
RemovedOneChar ==
  /\ Len(doc') = Len(doc)
  /\ Len(DocText(doc')) = Len(DocText(doc)) - 1

\* The step merged two adjacent paragraphs and removed no character.
MergedOnePair ==
  /\ Len(doc') = Len(doc) - 1
  /\ DocText(doc') = DocText(doc)
  /\ \E p \in 1..(Len(doc) - 1) : doc' = MergeParagraphs(doc, p, p + 1)

\* C36: a single deleteBackward step at a resolvable caret that is not at the
\* very start of the document removes exactly one character or merges exactly
\* one pair of adjacent paragraphs, also when the run before the caret has
\* empty text or the paragraph before it holds no run, and the caret it
\* returns resolves to a run.
C36_DeleteStepProgress ==
  [][BackwardStep =>
       /\ RemovedOneChar \/ MergedOnePair
       /\ run_in_bookmark(doc', Val(resp'.body.selection).startNodeId) # None]_vars

\* ------------------------------------------------ reading order of a break
\* The addresses of the runs of d that come after the run bound to a, in
\* document order.
RunsAfter(d, a) ==
  LET rl == RunList(d)
      k == IndexOf(rl, run_in_bookmark(d, a))
  IN {RunAt(d, rl[n]).id : n \in (k + 1)..Len(rl)}

\* C37: insertBreak keeps the reading order: the run texts in document order,
\* concatenated, are the same before and after it, and the runs that followed
\* the split run come after the run that holds the text behind the caret.
C37_BreakKeepsReadingOrder ==
  [][BreakAtRun =>
       /\ DocText(doc') = DocText(doc)
       /\ run_in_bookmark(doc', req'.args[1]) # None
       /\ RunsAfter(doc, req'.args[1]) \subseteq RunsAfter(doc', req'.args[1])]_vars

\* ------------------------------------------------------- range containment
\* The step is an accepted deleteRange or updateRangeStyle whose addresses
\* resolve to two different runs.
TwoRunRangeStep ==
  /\ req'.op \in {"delete_range", "update_range"}
  /\ outcome' = "applied" /\ nsteps' = nsteps + 1
  /\ run_in_bookmark(doc, req'.args[1]) # None
  /\ run_in_bookmark(doc, req'.args[3]) # None
  /\ run_in_bookmark(doc, req'.args[1]) # run_in_bookmark(doc, req'.args[3])

\* C38: deleteRange and updateRangeStyle with the addresses of two different
\* runs, given in either order: every run outside the span from the one
\* boundary run to the other keeps its address, text and font, and every
\* paragraph outside the paragraphs of the span keeps its alignment and
\* indent.
C38_RangeContainment ==
  [][TwoRunRangeStep =>
       LET rl == RunList(doc)
           ks == IndexOf(rl, run_in_bookmark(doc, req'.args[1]))
           ke == IndexOf(rl, run_in_bookmark(doc, req'.args[3]))
           lo == Min2(ks, ke)
           hi == Max2(ks, ke)
           same(a, b) == a.id = b.id /\ a.text = b.text /\ a.font = b.font
       IN /\ \A k \in (1..Len(rl)) \ (lo..hi) :
               \E pos \in Positions(doc') : same(RunAt(doc', pos), RunAt(doc, rl[k]))
          /\ Len(doc') = Len(doc)
          /\ \A p \in (1..Len(doc)) \ (rl[lo][1]..rl[hi][1]) :
               doc'[p].align = doc[p].align /\ doc'[p].indent = doc[p].indent]_vars

\* ------------------------------------------------ one request, one undo step
\* The step is an accepted mutating request.
AcceptedRequest ==
  /\ req'.op \in MutatingOps
  /\ outcome' \in {"applied", "not_applied"} /\ nsteps' = nsteps + 1

\* C39: every accepted mutating request, deleteBackward and deleteForward
\* with a count above 1 included, adds at most one entry to the undo stack,
\* and the entry an edit adds is the document from before the whole request.
C39_OneRequestOneUndoStep ==
  [][AcceptedRequest =>
       /\ Len(undo_stack') <= Len(undo_stack) + 1
       /\ (req'.op \notin {"undo", "redo"} /\ Len(undo_stack') > Len(undo_stack))
            => undo(EditState').s.doc = doc]_vars

\* ------------------------------------------- bookmarks of an uploaded file
\* Requests a behaviour of SpecAlias accepts or suspends.
MaxAliasSteps == 4

\* The client uploads a file that carries a bookmark of its author's, "Foo",
\* around a run (which the load wraps in a bookmark of its own as well), and
\* then edits by that name and by the addresses of the runs: inserts, breaks,
\* backward deletes at the start of a run, and styles of a range whose two
\* ends name the same run.
NextAlias ==
  \/ \E r \in Fresh("upload", {<<Some(UploadedDoc)>>}) :
       /\ Admit(r, MaxAliasSteps)
       /\ upload_document_begin(TokenOf(r), r.args[1], MaxUploads)
  \/ \E i \in 1..Len(uploads) : upload_document_finish(i)
  \/ \E r \in Fresh("insert_text", {<<"Foo", 1, <<"q">>, None>>}) :
       /\ Admit(r, MaxAliasSteps)
       /\ insert_text_endpoint(TokenOf(r), r.args[1], r.args[2], r.args[3], r.args[4])
  \/ \E r \in Fresh("insert_break", {<<Addr(k), 0>> : k \in 2..4} \cup {<<"Foo", 1>>}) :
       /\ Admit(r, MaxAliasSteps)
       /\ insert_break_endpoint(TokenOf(r), r.args[1], r.args[2])
  \/ \E r \in Fresh("delete_backward", {<<Addr(k), 0, 1>> : k \in 2..4}) :
       /\ Admit(r, MaxAliasSteps)
       /\ delete_backward_endpoint(TokenOf(r), r.args[1], r.args[2], r.args[3])
  \/ \E r \in Fresh("update_node", {<<"Foo", 0, 1, Red>>}) :
       /\ Admit(r, MaxAliasSteps)
       /\ update_node(TokenOf(r), r.args[1], r.args[2], r.args[3], r.args[4])
  \/ \E r \in Fresh("update_range", {<<"Foo", 1, Addr(2), End(2), Bold>>,
                                     <<"Foo", 0, Addr(2), 1, Bold>>}) :
       /\ Admit(r, MaxAliasSteps)
       /\ update_range(TokenOf(r), r.args[1], r.args[2], r.args[3], r.args[4], r.args[5])

SpecAlias == Init /\ [][NextAlias]_vars

\* -------------------------------------------------- the returned selection
\* The number of characters of d before offset off of the run bound to a.
AbsPos(d, a, off) == CharsBefore(d, IndexOf(RunList(d), run_in_bookmark(d, a))) + off

\* The text of the run of d bound to a.
TextAt(d, a) == RunAt(d, run_in_bookmark(d, a)).text

\* The range of the request is not degenerate: its ends are on two runs, or
\* on one run with the clamped start offset below the clamped end offset.
NonDegenerate(d, args) ==
  \/ run_in_bookmark(d, args[1]) # run_in_bookmark(d, args[3])
  \/ Max2(0, args[2]) < Min2(args[4], Len(TextAt(d, args[1])))

\* C40: the selection in the response of a range style with resolvable
\* addresses and a non-degenerate range, resolved against the document after
\* the edit, covers the characters the requested range covered before: its
\* two addresses resolve, its offsets lie within their runs, the text of the
\* document is unchanged and the two ends are at the character positions of
\* the (clamped) ends of the request, also when a boundary run was split.
C40_SelectionTracksRange ==
  [][(RangeStyleStep /\ NonDegenerate(doc, RangeArgs(req'))) =>
       LET args == RangeArgs(req')
           sel == Val(resp'.body.selection)
       IN /\ resp'.body.selection # None
          /\ run_in_bookmark(doc', sel.startNodeId) # None
          /\ run_in_bookmark(doc', sel.endNodeId) # None
          /\ sel.startOffset \in 0..Len(TextAt(doc', sel.startNodeId))
          /\ sel.endOffset \in 0..Len(TextAt(doc', sel.endNodeId))
          /\ DocText(doc') = DocText(doc)
          /\ AbsPos(doc', sel.startNodeId, sel.startOffset)
               = AbsPos(doc, args[1], Clamp(0, args[2], Len(TextAt(doc, args[1]))))
          /\ AbsPos(doc', sel.endNodeId, sel.endOffset)
               = AbsPos(doc, args[3], Clamp(0, args[4], Len(TextAt(doc, args[3]))))]_vars

==========================================================================
